---------------------------- MODULE Spec2Model ----------------------------
(***************************************************************************)
(* Ledger transaction engine of the transaction web server                 *)
(* (src/src/services/transaction_service.rs) over its PostgreSQL store.    *)
(*                                                                         *)
(* Each process is one worker running one call of execute_credit,          *)
(* execute_debit or execute_transfer.  One action is one awaited storage   *)
(* statement of the call together with the local code that follows it up   *)
(* to the next await.  The store is READ COMMITTED PostgreSQL: a unit of   *)
(* work's writes (tx_delta, tx_row) stay private until COMMIT, a row lock  *)
(* taken by SELECT ... FOR UPDATE or UPDATE is held until the unit of work *)
(* ends, and a locker of a locked row waits.                               *)
(*                                                                         *)
(* Three specifications share the state.  Spec: the workers call the       *)
(* engine directly.  HandlerSpec: the workers are HTTP requests of          *)
(* authenticated businesses going through src/src/handlers/transactions.rs *)
(* into the engine.  WebhookSpec: one call of notify_transaction_webhooks  *)
(* (src/src/services/webhook_service.rs) over a table of endpoints.        *)
(***************************************************************************)
EXTENDS Integers, Sequences, FiniteSets, TLC

\* ---------------------------------------------------------------- bounds
MaxAmount == 2          \* largest amount_cents a request carries
NumKeys == 1            \* distinct idempotency keys callers use
InitialBalance == 1     \* balance_cents of every account at start
NumEndpoints == 2       \* rows of the webhook_endpoints table

\* if url.len() > 2048 in validate_webhook_url
MaxUrlLength == 2048

\* SQL NULL / Option::None
Null == 0

Procs == {1, 2}                 \* concurrent workers, one call each
Accounts == {1, 2}              \* rows of the accounts table
AccountIds == Accounts \cup {3} \* ids a caller can name; 3 has no row
Keys == 1..NumKeys
Amounts == 0..MaxAmount         \* amount_cents of a request; 0 is not positive
Owners == {1, 2}                \* rows of the api_keys table: the businesses
EndpointIds == 1..NumEndpoints

VARIABLES
    balance_cents,  \* accounts.balance_cents, committed
    transactions,   \* the transactions table, committed rows in commit order
    row_lock,       \* account row -> the worker whose unit of work locks it
    pc,             \* worker -> the await it is at
    req,            \* worker -> the arguments of its call
    tx_delta,       \* worker -> uncommitted balance updates of its unit of work
    tx_row,         \* worker -> uncommitted inserted Transaction row (<<>> or <<row>>)
    tx_open,        \* worker -> its unit of work is open and holds a pooled connection
    from_balance,   \* worker -> balance read by SELECT ... FOR UPDATE (-1: not read)
    lock_log,       \* worker -> account rows its unit of work locked, in order
    result,         \* worker -> what its call returned
    account_owner,  \* accounts.api_key_id: the business an account belongs to
    auth,           \* worker -> AuthContext.api_key_id of its request (Null: none)
    fetched,        \* worker -> the Transaction get_transaction has read (<<>>: none)
    webhook_endpoints, \* the webhook_endpoints table
    webhook_events, \* the webhook_events table, in insertion order
    notify_pc,      \* the await the call of notify_transaction_webhooks is at
    notify_args,    \* its arguments: api_key_id and transaction
    endpoints,      \* the rows its SELECT loaded
    endpoint_index, \* position of its for loop in endpoints
    response,       \* (status, body) of the send_webhook in progress
    http_posts,     \* the HTTP POSTs issued, in order
    conn_held,      \* pooled connections the notifier holds
    endpoint_result,  \* what the last endpoint registry operation returned
    secret_exposures, \* ids of the endpoints whose secret a response carried
    send_log,       \* the calls of send_webhook that returned, in order
    notify_result   \* what notify_transaction_webhooks returned

ledger_vars == <<balance_cents, transactions, row_lock, pc, req, tx_delta, tx_row,
                 tx_open,
                 from_balance, lock_log, result>>

handler_vars == <<account_owner, auth, fetched>>

registry_vars == <<endpoint_result, secret_exposures>>

webhook_vars == <<webhook_endpoints, webhook_events, notify_pc, notify_args,
                  endpoints, endpoint_index, response, http_posts, conn_held,
                  send_log, notify_result, endpoint_result, secret_exposures>>

vars == <<ledger_vars, handler_vars, webhook_vars>>

\* ------------------------------------------------------------ data types
NoRequest == [op |-> "none", from |-> Null, to |-> Null, amount |-> 0, key |-> Null]

CreditRequests ==
    {[op |-> "credit", from |-> Null, to |-> a, amount |-> n, key |-> k] :
        a \in AccountIds, n \in Amounts, k \in {Null} \cup Keys}

DebitRequests ==
    {[op |-> "debit", from |-> a, to |-> Null, amount |-> n, key |-> k] :
        a \in AccountIds, n \in Amounts, k \in {Null} \cup Keys}

TransferRequests ==
    {[op |-> "transfer", from |-> a, to |-> b, amount |-> n, key |-> k] :
        a \in AccountIds, b \in AccountIds, n \in Amounts, k \in {Null} \cup Keys}

\* A row of the transactions table.  The id the store generates is fresh; a call
\* inserts at most one row, so the inserting worker's number serves as the id.
Transaction(p, type, from, to, amount, key) ==
    [id |-> p, idempotency_key |-> key, transaction_type |-> type,
     from_account_id |-> from, to_account_id |-> to, amount_cents |-> amount,
     status |-> "completed"]

\* What a call returned: kind is "Ok" or the AppError variant, tx the Transaction
\* of Ok, msg the String of an AppError::InvalidRequest, sqlx the sqlx::Error an
\* AppError::Database wraps, at the await the call returned from.
NoResult == [kind |-> "none", tx |-> <<>>, msg |-> "none", sqlx |-> "none", at |-> "none"]

ZeroDelta == [a \in Accounts |-> 0]

\* A URL string as validate_webhook_url sees it: what url::Url::parse makes of
\* it (scheme "" when it does not parse) and its length in bytes.
Url(scheme, host, len) == [scheme |-> scheme, host |-> host, len |-> len]

\* generate_secret(): 32 random bytes in hex, the n-th value generated; two
\* calls never give the same one.
GenerateSecret(n) == <<"secret", n>>

\* A row of the webhook_endpoints table.
WebhookEndpoint(id, api_key_id, url, secret, is_active) ==
    [id |-> id, api_key_id |-> api_key_id, url |-> url, secret |-> secret,
     is_active |-> is_active]

\* The arguments of an endpoint registry operation: the caller's api_key_id,
\* the url of a registration, the endpoint_id of a deletion.
EndpointRequest(api_key_id, url, endpoint_id) ==
    [api_key_id |-> api_key_id, url |-> url, endpoint_id |-> endpoint_id]

NoUrl == Url("", "", 0)

NoEndpointRequest == EndpointRequest(Null, NoUrl, Null)

NoArgs == [api_key_id |-> Null, transaction |-> <<>>]

\* (status, body) before any response: (None, None).
NoResponse == [status |-> Null, body |-> "none"]

LedgerInit ==
    /\ balance_cents = [a \in Accounts |-> InitialBalance]
    /\ transactions = <<>>
    /\ row_lock = [a \in Accounts |-> Null]
    /\ pc = [p \in Procs |-> "idle"]
    /\ req = [p \in Procs |-> NoRequest]
    /\ tx_delta = [p \in Procs |-> ZeroDelta]
    /\ tx_row = [p \in Procs |-> <<>>]
    /\ tx_open = [p \in Procs |-> FALSE]
    /\ from_balance = [p \in Procs |-> 0 - 1]
    /\ lock_log = [p \in Procs |-> <<>>]
    /\ result = [p \in Procs |-> NoResult]

\* No call of notify_transaction_webhooks yet, no event recorded.
NotifierInit ==
    /\ webhook_events = <<>>
    /\ notify_pc = "idle"
    /\ notify_args = NoArgs
    /\ endpoints = <<>>
    /\ endpoint_index = 0
    /\ response = NoResponse
    /\ http_posts = <<>>
    /\ conn_held = 0
    /\ endpoint_result =
          [op |-> "none", request |-> NoEndpointRequest, kind |-> "none",
           msg |-> "none", body |-> <<>>]
    /\ secret_exposures = <<>>
    /\ send_log = <<>>
    /\ notify_result = "none"

\* The engine called directly: no request context, no endpoints.
Init ==
    /\ LedgerInit
    /\ account_owner = [a \in Accounts |-> 1]
    /\ auth = [p \in Procs |-> Null]
    /\ fetched = [p \in Procs |-> <<>>]
    /\ webhook_endpoints = <<>>
    /\ NotifierInit


\* ------------------------------------------------- the store's primitives
\* SELECT * FROM transactions WHERE idempotency_key = $1, on the pool: the
\* committed rows carrying the key, oldest first (fetch_optional takes the first).
FindByIdempotencyKey(key) ==
    SelectSeq(transactions, LAMBDA r : r.idempotency_key = key)

\* Variant: the transactions table without the uniqueness constraint.
UniqueViolationDisabled(key) == FALSE

\* The uniqueness constraint on transactions.idempotency_key: an INSERT of a
\* key a committed row already carries is refused.
UniqueViolation(key) ==
    key # Null /\ FindByIdempotencyKey(key) # <<>>

\* An INSERT of a key that another open unit of work has inserted waits for
\* that unit of work to end.
UniqueWait(p, key) ==
    key # Null /\ \E q \in Procs \ {p} :
        tx_row[q] # <<>> /\ tx_row[q][1].idempotency_key = key

\* Variant: the SELECT without FOR UPDATE, which waits for nobody.
LockFreeNoLock(p, a) == TRUE

\* A row lock is granted when the row is free or already held by the asker.
LockFree(p, a) == row_lock[a] \in {Null, p}

AcquireLock(p, a) ==
    /\ LockFree(p, a)
    /\ row_lock' = [row_lock EXCEPT ![a] = p]
    /\ lock_log' = [lock_log EXCEPT ![p] =
                        IF row_lock[a] = p THEN @ ELSE Append(@, a)]

\* Variant: .execute(pool), the UPDATE run outside the unit of work and
\* committed on its own.
WriteBalanceOnPool(p, a, d) ==
    /\ balance_cents' = [balance_cents EXCEPT ![a] = @ + d]
    /\ UNCHANGED <<tx_delta, tx_open>>

\* Variant: the UPDATE without its WHERE id = $2, so every account row is
\* written.
WriteBalanceEveryRow(p, a, d) ==
    /\ tx_delta' = [tx_delta EXCEPT ![p] = [b \in Accounts |-> @[b] + d]]
    /\ UNCHANGED <<balance_cents, tx_open>>

\* .execute(&mut *tx): the UPDATE runs inside the unit of work, so the new
\* balance is private to it until COMMIT.
WriteBalance(p, a, d) ==
    /\ tx_delta' = [tx_delta EXCEPT ![p][a] = @ + d]
    /\ UNCHANGED <<balance_cents, tx_open>>

\* Variant: the unit of work neither rolled back nor dropped on the return
\* (std::mem::forget(tx)): its locks and its connection stay taken.
RollbackForgotten(p) ==
    UNCHANGED <<row_lock, tx_delta, tx_row, tx_open, balance_cents, transactions>>

\* The end of a unit of work without COMMIT (tx.rollback(), or the Transaction
\* value dropped on an early return): its writes are discarded, its locks
\* freed, its connection back in the pool.
Rollback(p) ==
    /\ row_lock' = [a \in Accounts |-> IF row_lock[a] = p THEN Null ELSE row_lock[a]]
    /\ tx_delta' = [tx_delta EXCEPT ![p] = ZeroDelta]
    /\ tx_row' = [tx_row EXCEPT ![p] = <<>>]
    /\ tx_open' = [tx_open EXCEPT ![p] = FALSE]
    /\ UNCHANGED <<balance_cents, transactions>>

\* The call returns: Ok(transaction) or Err(kind).
Return(p, kind, tx) ==
    /\ pc' = [pc EXCEPT ![p] = "done"]
    /\ result' = [result EXCEPT ![p] =
                    [kind |-> kind, tx |-> tx, msg |-> "none", sqlx |-> "none",
                     at |-> pc[p]]]

\* return Err(AppError::InvalidRequest(msg.to_string()))
ReturnInvalidRequest(p, msg) ==
    /\ pc' = [pc EXCEPT ![p] = "done"]
    /\ result' = [result EXCEPT ![p] =
                    [kind |-> "InvalidRequest", tx |-> <<>>, msg |-> msg,
                     sqlx |-> "none", at |-> pc[p]]]

\* `?` on a failed statement: Err(AppError::Database(e)), by From<sqlx::Error>.
ReturnDatabase(p, e) ==
    /\ pc' = [pc EXCEPT ![p] = "done"]
    /\ result' = [result EXCEPT ![p] =
                    [kind |-> "Database", tx |-> <<>>, msg |-> "none", sqlx |-> e,
                     at |-> pc[p]]]

Goto(p, label) ==
    /\ pc' = [pc EXCEPT ![p] = label]
    /\ UNCHANGED result

\* tx.rollback().await?; return Err(err): the error the code intends, or the
\* storage error of the rollback statement itself.
RollbackAndReturn(p, err) ==
    /\ Rollback(p)
    /\ (Return(p, err, <<>>) \/ ReturnDatabase(p, "io"))


\* --------------------------------------------- steps shared by the calls
\* Variant: the check written balance_cents <= amount_cents.
SufficientBalanceStrict(balance, amount) == balance > amount

\* if balance_cents < amount_cents { rollback; return Err(InsufficientBalance) }
SufficientBalance(balance, amount) == balance >= amount

\* Variant: the check written amount_cents < 0.
ValidAmountOrZero(amount) == amount >= 0

\* if amount_cents <= 0 { return Err(InvalidRequest("Amount must be positive")) }
ValidAmount(amount) == amount > 0

\* Variant: execute_transfer without the same-account check.
DistinctAccountsUnchecked(from, to) == TRUE

\* if from_account_id == to_account_id { return Err(InvalidRequest(..)) }
DistinctAccounts(from, to) == from # to

\* The validation at the head of execute_credit and execute_debit: the
\* message of the InvalidRequest it returns, "none" when it passes.
ValidateAmount(r) ==
    IF ValidAmount(r.amount) THEN "none" ELSE "Amount must be positive"

\* The validation at the head of execute_transfer: the amount first, then the
\* two accounts.
ValidateTransfer(r) ==
    IF ~ValidAmount(r.amount) THEN "Amount must be positive"
    ELSE IF ~DistinctAccounts(r.from, r.to) THEN "Cannot transfer to same account"
    ELSE "none"

\* The call's arguments are bound and validated; no storage statement yet.
Enter(p, r, msg, label) ==
    /\ pc[p] = "idle"
    /\ req' = [req EXCEPT ![p] = r]
    /\ IF msg = "none"
         THEN Goto(p, IF r.key # Null THEN label \o "_lookup" ELSE label \o "_begin")
         ELSE ReturnInvalidRequest(p, msg)
    /\ UNCHANGED <<balance_cents, transactions, row_lock, tx_delta, tx_open,
                   tx_row,
                   from_balance, lock_log>>
    /\ UNCHANGED <<account_owner, fetched, webhook_vars>>

\* Variant: the lookup's result ignored.
IdempotencyLookupMiss(p, next) ==
    /\ Goto(p, next)
    /\ UNCHANGED <<balance_cents, transactions, row_lock, req, tx_delta, tx_open,
                   tx_row,
                   from_balance, lock_log>>
    /\ UNCHANGED <<handler_vars, webhook_vars>>

\* if let Some(existing) = SELECT ... WHERE idempotency_key = $1 { return Ok(existing) }
IdempotencyLookup(p, next) ==
    /\ IF FindByIdempotencyKey(req[p].key) # <<>>
         THEN Return(p, "Ok", <<Head(FindByIdempotencyKey(req[p].key))>>)
         ELSE Goto(p, next)
    /\ UNCHANGED <<balance_cents, transactions, row_lock, req, tx_delta, tx_open,
                   tx_row,
                   from_balance, lock_log>>
    /\ UNCHANGED <<handler_vars, webhook_vars>>

\* let mut tx = pool.begin().await?: a connection is taken from the pool and
\* stays with the unit of work until it ends.
BeginTx(p, next) ==
    /\ tx_open' = [tx_open EXCEPT ![p] = TRUE]
    /\ Goto(p, next)
    /\ UNCHANGED <<balance_cents, transactions, row_lock, req, tx_delta, tx_row,
                   from_balance, lock_log>>
    /\ UNCHANGED <<handler_vars, webhook_vars>>

\* SELECT balance_cents FROM accounts WHERE id = $1 FOR UPDATE, then the
\* balance check.  No row: ok_or(AccountNotFound)? returns and drops tx.
LockAndCheckBalance(p, next) ==
    /\ \/ /\ req[p].from \notin Accounts
          /\ Rollback(p)
          /\ Return(p, "AccountNotFound", <<>>)
          /\ UNCHANGED <<from_balance, lock_log>>
       \/ /\ req[p].from \in Accounts
          /\ SufficientBalance(balance_cents[req[p].from], req[p].amount)
          /\ AcquireLock(p, req[p].from)
          /\ from_balance' = [from_balance EXCEPT ![p] = balance_cents[req[p].from]]
          /\ Goto(p, next)
          /\ UNCHANGED <<balance_cents, transactions, tx_delta, tx_open, tx_row>>
       \/ /\ req[p].from \in Accounts
          /\ ~SufficientBalance(balance_cents[req[p].from], req[p].amount)
          /\ LockFree(p, req[p].from)
          /\ lock_log' = [lock_log EXCEPT ![p] = Append(@, req[p].from)]
          /\ from_balance' = [from_balance EXCEPT ![p] = balance_cents[req[p].from]]
          /\ RollbackAndReturn(p, "InsufficientBalance")
    /\ UNCHANGED req
    /\ UNCHANGED <<handler_vars, webhook_vars>>

\* UPDATE accounts SET balance_cents = balance_cents + d WHERE id = a, on a row
\* the unit of work has locked.
UpdateLocked(p, a, d, next) ==
    /\ WriteBalance(p, a, d)
    /\ Goto(p, next)
    /\ UNCHANGED <<transactions, row_lock, req, tx_row, from_balance, lock_log>>
    /\ UNCHANGED <<handler_vars, webhook_vars>>

\* Variant: INSERT ... ON CONFLICT (idempotency_key) DO UPDATE, the row that
\* carries the key overwritten.
InsertOnConflictDoUpdate(p, row, next) ==
    /\ ~UniqueWait(p, row.idempotency_key)
    /\ IF UniqueViolation(row.idempotency_key)
         THEN /\ transactions' =
                   [i \in DOMAIN transactions |->
                       IF transactions[i].idempotency_key = row.idempotency_key
                         THEN row ELSE transactions[i]]
              /\ UNCHANGED tx_row
         ELSE /\ tx_row' = [tx_row EXCEPT ![p] = <<row>>]
              /\ UNCHANGED transactions
    /\ Goto(p, next)
    /\ UNCHANGED <<balance_cents, row_lock, tx_delta, tx_open, req, from_balance, lock_log>>
    /\ UNCHANGED <<handler_vars, webhook_vars>>

\* Variant: INSERT ... ON CONFLICT DO NOTHING, the refusal swallowed and the
\* unit of work committed without a row.
InsertOnConflictDoNothing(p, row, next) ==
    /\ ~UniqueWait(p, row.idempotency_key)
    /\ tx_row' = [tx_row EXCEPT ![p] =
                    IF UniqueViolation(row.idempotency_key) THEN <<>> ELSE <<row>>]
    /\ Goto(p, next)
    /\ UNCHANGED <<balance_cents, transactions, row_lock, tx_delta, tx_open,
                   req,
                   from_balance, lock_log>>
    /\ UNCHANGED <<handler_vars, webhook_vars>>

\* Variant: the INSERT run with .fetch_one(pool), committed on its own.
InsertTransactionOnPool(p, row, next) ==
    /\ transactions' = Append(transactions, row)
    /\ Goto(p, next)
    /\ UNCHANGED <<balance_cents, row_lock, tx_delta, tx_open, tx_row, req,
                   from_balance,
                   lock_log>>
    /\ UNCHANGED <<handler_vars, webhook_vars>>

\* INSERT INTO transactions ... RETURNING *, .await?: refused when the key is
\* taken, and then `?` returns the storage error and drops tx.
InsertTransaction(p, row, next) ==
    /\ ~UniqueWait(p, row.idempotency_key)
    /\ \/ /\ UniqueViolation(row.idempotency_key)
          /\ Rollback(p)
          /\ ReturnDatabase(p, "unique_violation")
       \/ /\ ~UniqueViolation(row.idempotency_key)
          /\ tx_row' = [tx_row EXCEPT ![p] = <<row>>]
          /\ Goto(p, next)
          /\ UNCHANGED <<balance_cents, transactions, row_lock, tx_delta, tx_open>>
    /\ UNCHANGED <<req, from_balance, lock_log>>
    /\ UNCHANGED <<handler_vars, webhook_vars>>

\* Variant: tx.commit() left out: Ok(transaction) is returned and the dropped
\* unit of work is rolled back.
CommitTxForgotten(p) ==
    /\ Rollback(p)
    /\ Return(p, "Ok", tx_row[p])
    /\ UNCHANGED <<req, from_balance, lock_log>>
    /\ UNCHANGED <<handler_vars, webhook_vars>>

\* Variant: the notification made a precondition of the commit: with an
\* active endpoint registered the unit of work is given up.
CommitTxNeedsNoEndpoint(p) ==
    IF \E i \in DOMAIN webhook_endpoints : webhook_endpoints[i].is_active
      THEN /\ Rollback(p)
           /\ Return(p, "InvalidRequest", <<>>)
           /\ UNCHANGED <<req, from_balance, lock_log>>
           /\ UNCHANGED <<handler_vars, webhook_vars>>
      ELSE /\ balance_cents' =
                 [a \in Accounts |-> balance_cents[a] + tx_delta[p][a]]
           /\ transactions' = transactions \o tx_row[p]
           /\ row_lock' =
                 [a \in Accounts |-> IF row_lock[a] = p THEN Null ELSE row_lock[a]]
           /\ tx_delta' = [tx_delta EXCEPT ![p] = ZeroDelta]
           /\ tx_row' = [tx_row EXCEPT ![p] = <<>>]
           /\ tx_open' = [tx_open EXCEPT ![p] = FALSE]
    /\ tx_open' = [tx_open EXCEPT ![p] = FALSE]
           /\ Return(p, "Ok", tx_row[p])
           /\ UNCHANGED <<req, from_balance, lock_log>>
           /\ UNCHANGED <<handler_vars, webhook_vars>>

\* tx.commit().await?; Ok(transaction): the unit of work's writes become the
\* committed state together, and its locks are freed.
CommitTx(p) ==
    /\ balance_cents' = [a \in Accounts |-> balance_cents[a] + tx_delta[p][a]]
    /\ transactions' = transactions \o tx_row[p]
    /\ row_lock' = [a \in Accounts |-> IF row_lock[a] = p THEN Null ELSE row_lock[a]]
    /\ tx_delta' = [tx_delta EXCEPT ![p] = ZeroDelta]
    /\ tx_row' = [tx_row EXCEPT ![p] = <<>>]
    /\ tx_open' = [tx_open EXCEPT ![p] = FALSE]
    /\ Return(p, "Ok", tx_row[p])
    /\ UNCHANGED <<req, from_balance, lock_log>>
    /\ UNCHANGED <<handler_vars, webhook_vars>>


\* --------------------------------------------------------- execute_credit
CreditEnter(p) ==
    /\ pc[p] = "idle"
    /\ \E r \in CreditRequests : Enter(p, r, ValidateAmount(r), "credit")
    /\ UNCHANGED auth

CreditLookup(p) ==
    pc[p] = "credit_lookup" /\ IdempotencyLookup(p, "credit_begin")

CreditBegin(p) ==
    pc[p] = "credit_begin" /\ BeginTx(p, "credit_update")

\* UPDATE accounts SET balance_cents = balance_cents + $1 WHERE id = $2 takes
\* the row's lock itself; rows_affected() == 0 when the account has no row.
CreditUpdate(p) ==
    /\ pc[p] = "credit_update"
    /\ \/ /\ req[p].to \notin Accounts
          /\ RollbackAndReturn(p, "AccountNotFound")
          /\ UNCHANGED lock_log
       \/ /\ req[p].to \in Accounts
          /\ AcquireLock(p, req[p].to)
          /\ WriteBalance(p, req[p].to, req[p].amount)
          /\ Goto(p, "credit_insert")
          /\ UNCHANGED <<transactions, tx_row>>
    /\ UNCHANGED <<req, from_balance>>
    /\ UNCHANGED <<handler_vars, webhook_vars>>

CreditInsert(p) ==
    /\ pc[p] = "credit_insert"
    /\ InsertTransaction(p, Transaction(p, "credit", Null, req[p].to,
                                        req[p].amount, req[p].key), "credit_commit")

CreditCommit(p) ==
    pc[p] = "credit_commit" /\ CommitTx(p)

\* ---------------------------------------------------------- execute_debit
DebitEnter(p) ==
    /\ pc[p] = "idle"
    /\ \E r \in DebitRequests : Enter(p, r, ValidateAmount(r), "debit")
    /\ UNCHANGED auth

DebitLookup(p) ==
    pc[p] = "debit_lookup" /\ IdempotencyLookup(p, "debit_begin")

DebitBegin(p) ==
    pc[p] = "debit_begin" /\ BeginTx(p, "debit_lock")

DebitLock(p) ==
    pc[p] = "debit_lock" /\ LockAndCheckBalance(p, "debit_update")

\* Variant: the UPDATE copied from execute_credit, adding the amount.
DebitUpdateAdds(p) ==
    /\ pc[p] = "debit_update"
    /\ UpdateLocked(p, req[p].from, req[p].amount, "debit_insert")

DebitUpdate(p) ==
    /\ pc[p] = "debit_update"
    /\ UpdateLocked(p, req[p].from, 0 - req[p].amount, "debit_insert")

DebitInsert(p) ==
    /\ pc[p] = "debit_insert"
    /\ InsertTransaction(p, Transaction(p, "debit", req[p].from, Null,
                                        req[p].amount, req[p].key), "debit_commit")

DebitCommit(p) ==
    pc[p] = "debit_commit" /\ CommitTx(p)

\* ------------------------------------------------------- execute_transfer
TransferEnter(p) ==
    /\ pc[p] = "idle"
    /\ \E r \in TransferRequests : Enter(p, r, ValidateTransfer(r), "transfer")
    /\ UNCHANGED auth

TransferLookup(p) ==
    pc[p] = "transfer_lookup" /\ IdempotencyLookup(p, "transfer_begin")

TransferBegin(p) ==
    pc[p] = "transfer_begin" /\ BeginTx(p, "transfer_lock_from")

\* The source row is locked first, whichever id it has.
TransferLockFrom(p) ==
    pc[p] = "transfer_lock_from" /\ LockAndCheckBalance(p, "transfer_lock_to")

\* SELECT EXISTS(SELECT 1 FROM accounts WHERE id = $1 FOR UPDATE)
TransferLockTo(p) ==
    /\ pc[p] = "transfer_lock_to"
    /\ \/ /\ req[p].to \notin Accounts
          /\ RollbackAndReturn(p, "AccountNotFound")
          /\ UNCHANGED lock_log
       \/ /\ req[p].to \in Accounts
          /\ AcquireLock(p, req[p].to)
          /\ Goto(p, "transfer_debit")
          /\ UNCHANGED <<balance_cents, transactions, tx_delta, tx_open, tx_row>>
    /\ UNCHANGED <<req, from_balance>>
    /\ UNCHANGED <<handler_vars, webhook_vars>>

\* Variant: the first UPDATE run with .execute(pool), committed on its own.
TransferDebitOnPool(p) ==
    /\ pc[p] = "transfer_debit"
    /\ balance_cents' = [balance_cents EXCEPT ![req[p].from] = @ - req[p].amount]
    /\ Goto(p, "transfer_credit")
    /\ UNCHANGED <<transactions, row_lock, req, tx_delta, tx_open, tx_row,
                   from_balance,
                   lock_log>>
    /\ UNCHANGED <<handler_vars, webhook_vars>>

TransferDebit(p) ==
    /\ pc[p] = "transfer_debit"
    /\ UpdateLocked(p, req[p].from, 0 - req[p].amount, "transfer_credit")

\* Variant: the second UPDATE copied from the first, subtracting again.
TransferCreditCopiedDebit(p) ==
    /\ pc[p] = "transfer_credit"
    /\ UpdateLocked(p, req[p].to, 0 - req[p].amount, "transfer_insert")

TransferCredit(p) ==
    /\ pc[p] = "transfer_credit"
    /\ UpdateLocked(p, req[p].to, req[p].amount, "transfer_insert")

TransferInsert(p) ==
    /\ pc[p] = "transfer_insert"
    /\ InsertTransaction(p, Transaction(p, "transfer", req[p].from, req[p].to,
                                        req[p].amount, req[p].key), "transfer_commit")

TransferCommit(p) ==
    pc[p] = "transfer_commit" /\ CommitTx(p)

\* ---------------------------------------------------------- storage errors
\* Every awaited statement ends in `?`: a sqlx::Error becomes
\* AppError::Database, the call returns, and the dropped unit of work is
\* rolled back.  A statement waiting for a lock can fail too (the store breaks
\* a lock cycle by failing one of the waiters).
StorageFailure(p) ==
    /\ pc[p] \notin {"idle", "done"}
    /\ Rollback(p)
    /\ ReturnDatabase(p, "io")
    /\ UNCHANGED <<req, from_balance, lock_log>>
    /\ UNCHANGED <<handler_vars, webhook_vars>>

Next ==
    \E p \in Procs :
        \/ CreditEnter(p) \/ CreditLookup(p) \/ CreditBegin(p) \/ CreditUpdate(p)
        \/ CreditInsert(p) \/ CreditCommit(p)
        \/ DebitEnter(p) \/ DebitLookup(p) \/ DebitBegin(p) \/ DebitLock(p)
        \/ DebitUpdate(p) \/ DebitInsert(p) \/ DebitCommit(p)
        \/ TransferEnter(p) \/ TransferLookup(p) \/ TransferBegin(p)
        \/ TransferLockFrom(p) \/ TransferLockTo(p) \/ TransferDebit(p)
        \/ TransferCredit(p) \/ TransferInsert(p) \/ TransferCommit(p)
        \/ StorageFailure(p)

Spec == Init /\ [][Next]_vars

\* ============================================== handlers/transactions.rs
\* SELECT id FROM accounts WHERE id = $1 AND api_key_id = $2 finds a row.
Owns(o, a) == a \in Accounts /\ account_owner[a] = o

\* SELECT id FROM accounts WHERE id = ANY($1) AND api_key_id = $2: the rows.
OwnedAmong(o, ids) == {a \in Accounts : a \in ids /\ account_owner[a] = o}

\* Variant: the check written accounts.is_empty().
OwnsEither(o, from, to) == Cardinality(OwnedAmong(o, {from, to})) # 0

\* if accounts.len() != 2 { return Err(AppError::AccountNotFound) }
OwnsBoth(o, from, to) == Cardinality(OwnedAmong(o, {from, to})) = 2

\* A request of business o arrives and the handler runs its ownership SELECT:
\* no row (or not two) answers AccountNotFound, a failed SELECT answers the
\* storage error, and otherwise the engine is called and validates.
HandlerEnter(p, o, r, owned, msg, label) ==
    /\ auth' = [auth EXCEPT ![p] = o]
    /\ \/ owned /\ Enter(p, r, msg, label)
       \/ /\ pc[p] = "idle"
          /\ req' = [req EXCEPT ![p] = r]
          /\ \/ ~owned /\ Return(p, "AccountNotFound", <<>>)
             \/ ReturnDatabase(p, "io")
          /\ UNCHANGED <<balance_cents, transactions, row_lock, tx_delta, tx_open,
                         tx_row,
                         from_balance, lock_log, account_owner, fetched,
                         webhook_vars>>

CreateCredit(p) ==
    /\ pc[p] = "idle"
    /\ \E o \in Owners, r \in CreditRequests :
          HandlerEnter(p, o, r, Owns(o, r.to), ValidateAmount(r), "credit")

CreateDebit(p) ==
    /\ pc[p] = "idle"
    /\ \E o \in Owners, r \in DebitRequests :
          HandlerEnter(p, o, r, Owns(o, r.from), ValidateAmount(r), "debit")

CreateTransfer(p) ==
    /\ pc[p] = "idle"
    /\ \E o \in Owners, r \in TransferRequests :
          HandlerEnter(p, o, r, OwnsBoth(o, r.from, r.to), ValidateTransfer(r),
                       "transfer")

\* SELECT * FROM transactions WHERE id = $1, fetch_optional on the pool.
GetTransactionById(id) ==
    SelectSeq(transactions, LAMBDA r : r.id = id)

\* A GET of transaction id by business o: what the request carries.
GetRequest(id) ==
    [op |-> "get", id |-> id, from |-> Null, to |-> Null, amount |-> 0,
     key |-> Null]

\* get_transaction up to its second await: get_transaction_by_id(..).await?
\* .ok_or(AppError::AccountNotFound)?
GetTransaction(p) ==
    /\ pc[p] = "idle"
    /\ \E o \in Owners, id \in Procs :
          /\ auth' = [auth EXCEPT ![p] = o]
          /\ req' = [req EXCEPT ![p] = GetRequest(id)]
          /\ \/ IF GetTransactionById(id) = <<>>
                  THEN /\ Return(p, "AccountNotFound", <<>>)
                       /\ UNCHANGED fetched
                  ELSE /\ fetched' = [fetched EXCEPT ![p] = GetTransactionById(id)]
                       /\ Goto(p, "get_access")
             \/ ReturnDatabase(p, "io") /\ UNCHANGED fetched
    /\ UNCHANGED <<balance_cents, transactions, row_lock, tx_delta, tx_open,
                   tx_row,
                   from_balance, lock_log, account_owner, webhook_vars>>

\* SELECT EXISTS(SELECT 1 FROM accounts WHERE api_key_id = $1 AND (id = $2 OR
\* id = $3)); if !has_access { return Err(AccountNotFound) }
HasAccess(o, t) ==
    \E a \in Accounts :
        account_owner[a] = o /\ (a = t.from_account_id \/ a = t.to_account_id)

GetTransactionAccess(p) ==
    /\ pc[p] = "get_access"
    /\ IF HasAccess(auth[p], fetched[p][1])
         THEN Return(p, "Ok", fetched[p])
         ELSE Return(p, "AccountNotFound", <<>>)
    /\ UNCHANGED <<balance_cents, transactions, row_lock, tx_delta, tx_open, tx_row,
                   req,
                   from_balance, lock_log, handler_vars, webhook_vars>>

\* The ownership of the accounts: account 1 is business 1's, the others are
\* anybody's.
Ownerships == {f \in [Accounts -> Owners] : f[1] = 1}

\* A URL registration accepts.
RegisteredUrl == Url("https", "example.com", MaxUrlLength)

\* Every business has registered active endpoints: row i belongs to business
\* 1 for odd i, business 2 for even i.
RegisteredEndpoints ==
    [i \in EndpointIds |->
        WebhookEndpoint(i, IF i % 2 = 1 THEN 1 ELSE 2, RegisteredUrl,
                        GenerateSecret(i), TRUE)]

HandlerInit ==
    /\ LedgerInit
    /\ account_owner \in Ownerships
    /\ auth = [p \in Procs |-> Null]
    /\ fetched = [p \in Procs |-> <<>>]
    /\ webhook_endpoints = RegisteredEndpoints
    /\ NotifierInit

\* The handlers return what the engine returned; nothing else runs for a
\* request.
\* A step of worker p's request when it changes the ledger.
WriteStep(p) ==
        \/ CreateCredit(p) \/ CreditLookup(p) \/ CreditBegin(p) \/ CreditUpdate(p)
        \/ CreditInsert(p) \/ CreditCommit(p)
        \/ CreateDebit(p) \/ DebitLookup(p) \/ DebitBegin(p) \/ DebitLock(p)
        \/ DebitUpdate(p) \/ DebitInsert(p) \/ DebitCommit(p)
        \/ CreateTransfer(p) \/ TransferLookup(p) \/ TransferBegin(p)
        \/ TransferLockFrom(p) \/ TransferLockTo(p) \/ TransferDebit(p)
        \/ TransferCredit(p) \/ TransferInsert(p) \/ TransferCommit(p)
        \/ StorageFailure(p)

\* A step of worker p's request when it reads a transaction.
ReadStep(p) == GetTransaction(p) \/ GetTransactionAccess(p)

HandlerNext == \E p \in Procs : WriteStep(p) \/ ReadStep(p)

HandlerSpec == HandlerInit /\ [][HandlerNext]_vars

\* ============================================ services/webhook_service.rs
\* The transactions a caller passes to notify_transaction_webhooks.
NotifyTransactions ==
    {Transaction(p, "credit", Null, a, InitialBalance, Null) :
        p \in Procs, a \in Accounts}

\* The contents the webhook_endpoints table can have: row i has id i, the
\* i-th secret generated, any owner, active or soft-deleted.
EndpointTables ==
    {[i \in EndpointIds |->
        WebhookEndpoint(i, o[i], RegisteredUrl, GenerateSecret(i), act[i])] :
        o \in [EndpointIds -> Owners], act \in [EndpointIds -> BOOLEAN]}

\* What client.post(..).send().await and resp.text().await give: a response
\* with a 2xx or another status and its body, or no response (timeout after
\* 5 s, connection error) and the error's message.
HttpOutcomes ==
    {[status |-> 200, body |-> "ok"],
     [status |-> 500, body |-> "internal error"],
     [status |-> Null, body |-> "Request failed: timeout"],
     [status |-> Null, body |-> "Request failed: connection error"]}

\* let event_id = Uuid::new_v4(): a value no earlier call of send_webhook got.
NewEventId == Len(send_log) + 1

\* TransactionWebhookData::from(transaction): the fields a consumer gets; the
\* idempotency key is not among them.
TransactionWebhookData(t) ==
    [id |-> t.id, type |-> t.transaction_type,
     from_account_id |-> t.from_account_id, to_account_id |-> t.to_account_id,
     amount_cents |-> t.amount_cents, status |-> t.status]

\* WebhookPayload::new(event_id, transaction)
WebhookPayload(event_id, t) ==
    [event_type |-> "transaction.completed", event_id |-> event_id,
     data |-> [transaction |-> TransactionWebhookData(t)]]

\* serde_json::to_string(&payload): the text of the value.
ToJson(value) == <<"json", value>>

\* serde_json::from_str::<serde_json::Value>(&payload_json)
FromJson(text) == text[2]

\* hex::encode of HMAC-SHA256 keyed with key over message: a value that two
\* different (key, message) pairs do not share.
HexHmacSha256(key, message) == <<"hmac-sha256", key, message>>

\* Variant: the bare hex digest, no "sha256=" in front.
GenerateSignatureBareHex(secret, payload) == <<"", HexHmacSha256(secret, payload)>>

\* generate_signature(secret, payload): format!("sha256={}", hex::encode(..))
GenerateSignature(secret, payload) ==
    <<"sha256=", HexHmacSha256(secret, payload)>>

\* let payload_json = serde_json::to_string(&payload) of the send_webhook in
\* progress.
PayloadJson ==
    ToJson(WebhookPayload(NewEventId, notify_args.transaction[1]))

\* NewWebhookEvent::new(event_id, endpoint.id, transaction.id, payload_value,
\* status, body)
WebhookEvent(event_id, endpoint, transaction, payload_value, resp) ==
    [id |-> event_id, webhook_endpoint_id |-> endpoint.id,
     transaction_id |-> transaction.id, payload |-> payload_value,
     response_status |-> resp.status, response_body |-> resp.body]

\* Variant: the statement runs on a connection taken with pool.acquire() (or
\* in a unit of work of pool.begin()) that the call keeps.
PoolStatementKeepsConnection == conn_held' = conn_held + 1

\* A statement executed on the pool, .fetch_all(pool) or .execute(pool): the
\* connection it takes goes back to the pool when the statement ends.
PoolStatement == conn_held' = conn_held

\* A caller calls notify_transaction_webhooks(pool, &transaction, api_key_id).
NotifyCall ==
    /\ notify_pc = "idle"
    /\ \E o \in Owners, t \in NotifyTransactions :
          notify_args' = [api_key_id |-> o, transaction |-> <<t>>]
    /\ notify_pc' = "notify_load"
    /\ UNCHANGED <<ledger_vars, handler_vars, registry_vars, webhook_endpoints,
                   webhook_events,
                   endpoints, endpoint_index, response, http_posts, conn_held,
                   send_log, notify_result>>

\* Variant: the SELECT without AND is_active = true.
NotifyLoadInactiveToo ==
    /\ notify_pc = "notify_load"
    /\ \/ LET loaded == SelectSeq(webhook_endpoints, LAMBDA e :
                             e.api_key_id = notify_args.api_key_id)
          IN /\ endpoints' = loaded
             /\ PoolStatement
             /\ IF loaded = <<>>
                  THEN /\ notify_pc' = "done" /\ notify_result' = "Ok"
                       /\ UNCHANGED endpoint_index
                  ELSE /\ notify_pc' = "send_post" /\ endpoint_index' = 1
                       /\ UNCHANGED notify_result
       \/ /\ notify_pc' = "done" /\ notify_result' = "Database"
          /\ UNCHANGED <<endpoints, endpoint_index, conn_held>>
    /\ UNCHANGED <<ledger_vars, handler_vars, registry_vars, webhook_endpoints,
                   webhook_events,
                   notify_args, response, http_posts, send_log>>

\* SELECT * FROM webhook_endpoints WHERE api_key_id = $1 AND is_active = true,
\* .fetch_all(pool).await?: a failed SELECT returns Err; no row ends the loop
\* at once.
NotifyLoad ==
    /\ notify_pc = "notify_load"
    /\ \/ LET loaded == SelectSeq(webhook_endpoints, LAMBDA e :
                             e.api_key_id = notify_args.api_key_id /\ e.is_active)
          IN /\ endpoints' = loaded
             /\ PoolStatement
             /\ IF loaded = <<>>
                  THEN /\ notify_pc' = "done" /\ notify_result' = "Ok"
                       /\ UNCHANGED endpoint_index
                  ELSE /\ notify_pc' = "send_post" /\ endpoint_index' = 1
                       /\ UNCHANGED notify_result
       \/ /\ notify_pc' = "done" /\ notify_result' = "Database"
          /\ UNCHANGED <<endpoints, endpoint_index, conn_held>>
    /\ UNCHANGED <<ledger_vars, handler_vars, registry_vars, webhook_endpoints,
                   webhook_events,
                   notify_args, response, http_posts, send_log>>

\* Variant: the loop keeps the last send_webhook result and returns it.
FinishSendReturnsLast(returned, posted) ==
    /\ send_log' = Append(send_log,
                          [endpoint_id |-> endpoints[endpoint_index].id,
                           event_id |-> NewEventId, posted |-> posted,
                           returned |-> returned])
    /\ response' = NoResponse
    /\ IF endpoint_index < Len(endpoints)
         THEN /\ endpoint_index' = endpoint_index + 1
              /\ notify_pc' = "send_post"
              /\ UNCHANGED notify_result
         ELSE /\ notify_pc' = "done"
              /\ notify_result' = returned
              /\ UNCHANGED endpoint_index

\* Variant: send_webhook(..).await? in the loop, a failure returned at once.
FinishSendPropagate(returned, posted) ==
    /\ send_log' = Append(send_log,
                          [endpoint_id |-> endpoints[endpoint_index].id,
                           event_id |-> NewEventId, posted |-> posted,
                           returned |-> returned])
    /\ response' = NoResponse
    /\ IF returned = "Ok" /\ endpoint_index < Len(endpoints)
         THEN /\ endpoint_index' = endpoint_index + 1
              /\ notify_pc' = "send_post"
              /\ UNCHANGED notify_result
         ELSE /\ notify_pc' = "done"
              /\ notify_result' = returned
              /\ UNCHANGED endpoint_index

\* send_webhook returns and the loop goes on: if let Err(e) = send_webhook(..)
\* only logs, the next endpoint is tried, and after the last one Ok(()).
FinishSend(returned, posted) ==
    /\ send_log' = Append(send_log,
                          [endpoint_id |-> endpoints[endpoint_index].id,
                           event_id |-> NewEventId, posted |-> posted,
                           returned |-> returned])
    /\ response' = NoResponse
    /\ IF endpoint_index < Len(endpoints)
         THEN /\ endpoint_index' = endpoint_index + 1
              /\ notify_pc' = "send_post"
              /\ UNCHANGED notify_result
         ELSE /\ notify_pc' = "done"
              /\ notify_result' = "Ok"
              /\ UNCHANGED endpoint_index

\* Variant: .header("X-Webhook-Event-Id", Uuid::new_v4().to_string()), a
\* second id generated for the header.
HttpPostOwnHeaderId ==
    [endpoint_id |-> endpoints[endpoint_index].id,
     url |-> endpoints[endpoint_index].url,
     signature |-> GenerateSignature(endpoints[endpoint_index].secret,
                                     PayloadJson),
     event_id |-> NewEventId + NumEndpoints,
     body |-> PayloadJson]

\* The HTTP request send_webhook issues for the current endpoint: the POST to
\* endpoint.url with the X-Webhook-Signature and X-Webhook-Event-Id headers
\* and payload_json as its body.  endpoint_id is the row the url was read
\* from.
HttpPost ==
    [endpoint_id |-> endpoints[endpoint_index].id,
     url |-> endpoints[endpoint_index].url,
     signature |-> GenerateSignature(endpoints[endpoint_index].secret,
                                     PayloadJson),
     event_id |-> NewEventId,
     body |-> PayloadJson]

\* send_webhook up to .send().await: the payload is serialized, signed, the
\* HTTP client built (either can fail: Err(InvalidRequest), nothing sent) and
\* the POST is issued.
SendPost ==
    /\ notify_pc = "send_post"
    /\ \/ /\ FinishSend("InvalidRequest", FALSE)
          /\ UNCHANGED http_posts
       \/ /\ http_posts' = Append(http_posts, HttpPost)
          /\ notify_pc' = "post_in_flight"
          /\ UNCHANGED <<endpoint_index, response, send_log, notify_result>>
    /\ UNCHANGED <<ledger_vars, handler_vars, registry_vars, webhook_endpoints,
                   webhook_events,
                   notify_args, endpoints, conn_held>>

\* Variant: .send().await.map_err(..)?, a failed request returned as an error.
HttpResponseOrReturn ==
    /\ notify_pc = "post_in_flight"
    /\ \E out \in HttpOutcomes :
          IF out.status = Null
            THEN FinishSend("InvalidRequest", TRUE)
            ELSE /\ response' = out
                 /\ notify_pc' = "send_record"
                 /\ UNCHANGED <<endpoint_index, send_log, notify_result>>
    /\ UNCHANGED <<ledger_vars, handler_vars, registry_vars, webhook_endpoints,
                   webhook_events,
                   notify_args, endpoints, http_posts, conn_held>>

\* .send().await and resp.text().await complete: the endpoint answered, or
\* the 5 s timeout or a connection error ended the request; the outcome
\* becomes (status, body).
HttpResponse ==
    /\ notify_pc = "post_in_flight"
    /\ \E out \in HttpOutcomes : response' = out
    /\ notify_pc' = "send_record"
    /\ UNCHANGED <<endpoint_index, send_log, notify_result>>
    /\ UNCHANGED <<ledger_vars, handler_vars, registry_vars, webhook_endpoints,
                   webhook_events,
                   notify_args, endpoints, http_posts, conn_held>>

\* INSERT INTO webhook_events ..., .execute(pool).await?; Ok(())
SendRecord ==
    /\ notify_pc = "send_record"
    /\ \/ /\ webhook_events' =
                Append(webhook_events,
                       WebhookEvent(NewEventId, endpoints[endpoint_index],
                                    notify_args.transaction[1],
                                    FromJson(PayloadJson), response))
          /\ PoolStatement
          /\ FinishSend("Ok", TRUE)
       \/ /\ FinishSend("Database", TRUE)
          /\ UNCHANGED <<webhook_events, conn_held>>
    /\ UNCHANGED <<ledger_vars, handler_vars, registry_vars, webhook_endpoints,
                   notify_args,
                   endpoints, http_posts>>

\* ----------------------------------------- endpoint registry operations
\* The hosts the validation tells apart, and one that is not local.
Hosts == {"localhost", "127.0.0.1", "0.0.0.0", "example.com"}

\* The URL strings a registration request carries: http with every host,
\* https, another scheme and a text url::Url::parse refuses (scheme ""), all
\* of the largest length allowed, and an https and a local http URL one byte
\* longer.
Urls ==
    {Url("http", h, MaxUrlLength) : h \in Hosts}
      \cup {Url(s, "example.com", MaxUrlLength) : s \in {"https", "ftp", ""}}
      \cup {Url("https", "example.com", MaxUrlLength + 1),
            Url("http", "localhost", MaxUrlLength + 1)}

\* Variant: any http URL passes.
ValidateWebhookUrlAnyHttp(url) ==
    IF url.len > MaxUrlLength THEN "URL exceeds 2048 characters"
    ELSE IF url.scheme = "" THEN "Invalid URL format"
    ELSE IF url.scheme \in {"https", "http"} THEN "Ok"
    ELSE "URL must use HTTP or HTTPS"

\* validate_webhook_url(url): "Ok" or the message of the
\* AppError::InvalidWebhookUrl it returns.
ValidateWebhookUrl(url) ==
    IF url.len > MaxUrlLength THEN "URL exceeds 2048 characters"
    ELSE IF url.scheme = "" THEN "Invalid URL format"
    ELSE IF url.scheme = "https" THEN "Ok"
    ELSE IF url.scheme = "http"
      THEN IF url.host \in {"localhost", "127.0.0.1", "0.0.0.0"}
             THEN "Ok"
             ELSE "HTTP is only allowed for localhost. Use HTTPS for production."
    ELSE "URL must use HTTP or HTTPS"

\* Variant: the conversion copies the secret.
WebhookEndpointResponseWithSecret(endpoint) ==
    [id |-> endpoint.id, url |-> endpoint.url, secret |-> <<endpoint.secret>>,
     is_active |-> endpoint.is_active]

\* WebhookEndpointResponse::from(endpoint): secret: None.  The Option is
\* <<>> for None and <<secret>> for Some(secret).
WebhookEndpointResponse(endpoint) ==
    [id |-> endpoint.id, url |-> endpoint.url, secret |-> <<>>,
     is_active |-> endpoint.is_active]

\* response.with_secret(secret)
with_secret(resp, secret) == [resp EXCEPT !.secret = <<secret>>]

\* The value webhook_endpoints.is_active gets when the INSERT names no value.
IsActiveDefault == TRUE

\* The endpoints whose secret a list of responses carries.
SecretsShown(responses) ==
    SelectSeq([i \in DOMAIN responses |->
                   IF responses[i].secret = <<>> THEN Null ELSE responses[i].id],
              LAMBDA id : id # Null)

\* What an endpoint operation returned and the request it answered: kind is
\* "Ok" or the AppError variant, msg the String of an InvalidWebhookUrl, body
\* the responses of Ok.
EndpointResult(op, request, kind, msg, body) ==
    [op |-> op, request |-> request, kind |-> kind, msg |-> msg, body |-> body]

\* An endpoint operation returns.
EndpointReturn(op, request, kind, msg, body) ==
    /\ endpoint_result' = EndpointResult(op, request, kind, msg, body)
    /\ secret_exposures' = secret_exposures \o SecretsShown(body)

\* create_webhook_endpoint(pool, api_key_id, request): the URL is validated,
\* a secret generated, the row inserted and returned with its secret.  The
\* table holds at most NumEndpoints rows.
CreateWebhookEndpoint ==
    /\ \E o \in Owners, url \in Urls :
          LET valid == ValidateWebhookUrl(url)
              id == Len(webhook_endpoints) + 1
              secret == GenerateSecret(id)
              endpoint == WebhookEndpoint(id, o, url, secret, IsActiveDefault)
              request == EndpointRequest(o, url, Null)
          IN IF valid # "Ok"
               THEN /\ EndpointReturn("create", request, "InvalidWebhookUrl", valid, <<>>)
                    /\ UNCHANGED webhook_endpoints
               ELSE /\ Len(webhook_endpoints) < NumEndpoints
                    /\ \/ /\ webhook_endpoints' =
                                Append(webhook_endpoints, endpoint)
                          /\ EndpointReturn("create", request, "Ok", "none",
                                <<with_secret(WebhookEndpointResponse(endpoint),
                                              secret)>>)
                       \/ /\ EndpointReturn("create", request, "Database", "none", <<>>)
                          /\ UNCHANGED webhook_endpoints
    /\ UNCHANGED <<ledger_vars, handler_vars, webhook_events, notify_pc,
                   notify_args, endpoints, endpoint_index, response,
                   http_posts, conn_held, send_log, notify_result>>

\* The sequence in the opposite order.
Reverse(seq) == [i \in DOMAIN seq |-> seq[Len(seq) + 1 - i]]

\* list_webhook_endpoints(pool, api_key_id): the owner's active rows, newest
\* first, each converted to a response.
ListWebhookEndpoints ==
    /\ \E o \in Owners :
          \/ LET rows == Reverse(SelectSeq(webhook_endpoints, LAMBDA e :
                                     e.api_key_id = o /\ e.is_active))
             IN EndpointReturn("list", EndpointRequest(o, NoUrl, Null),
                    "Ok", "none",
                    [i \in DOMAIN rows |-> WebhookEndpointResponse(rows[i])])
          \/ EndpointReturn("list", EndpointRequest(o, NoUrl, Null),
                    "Database", "none", <<>>)
    /\ UNCHANGED <<ledger_vars, handler_vars, webhook_endpoints, webhook_events,
                   notify_pc, notify_args, endpoints, endpoint_index, response,
                   http_posts, conn_held, send_log, notify_result>>

\* Variant: DELETE FROM webhook_endpoints WHERE id = $1 AND api_key_id = $2
DeleteRows(endpoint_id, api_key_id) ==
    SelectSeq(webhook_endpoints, LAMBDA e :
        ~(e.id = endpoint_id /\ e.api_key_id = api_key_id))

\* Variant: the UPDATE without AND api_key_id = $2.
SetInactiveAnyOwner(endpoint_id, api_key_id) ==
    [i \in DOMAIN webhook_endpoints |->
        IF webhook_endpoints[i].id = endpoint_id
          THEN [webhook_endpoints[i] EXCEPT !.is_active = FALSE]
          ELSE webhook_endpoints[i]]

\* The table after UPDATE webhook_endpoints SET is_active = false
\* WHERE id = $1 AND api_key_id = $2
SetInactive(endpoint_id, api_key_id) ==
    [i \in DOMAIN webhook_endpoints |->
        IF /\ webhook_endpoints[i].id = endpoint_id
           /\ webhook_endpoints[i].api_key_id = api_key_id
          THEN [webhook_endpoints[i] EXCEPT !.is_active = FALSE]
          ELSE webhook_endpoints[i]]

\* result.rows_affected(): the rows the WHERE clause of the UPDATE matches.
RowsAffected(endpoint_id, api_key_id) ==
    Cardinality({i \in DOMAIN webhook_endpoints :
                    /\ webhook_endpoints[i].id = endpoint_id
                    /\ webhook_endpoints[i].api_key_id = api_key_id})

\* delete_webhook_endpoint(pool, api_key_id, endpoint_id); the id can be one
\* no row has.
DeleteWebhookEndpoint ==
    /\ \E o \in Owners, id \in 1..(NumEndpoints + 1) :
          \/ /\ webhook_endpoints' = SetInactive(id, o)
             /\ IF RowsAffected(id, o) = 0
                  THEN EndpointReturn("delete", EndpointRequest(o, NoUrl, id),
                                      "WebhookNotFound", "none", <<>>)
                  ELSE EndpointReturn("delete", EndpointRequest(o, NoUrl, id),
                                      "Ok", "none", <<>>)
          \/ /\ EndpointReturn("delete", EndpointRequest(o, NoUrl, id),
                                      "Database", "none", <<>>)
             /\ UNCHANGED webhook_endpoints
    /\ UNCHANGED <<ledger_vars, handler_vars, webhook_events, notify_pc,
                   notify_args, endpoints, endpoint_index, response,
                   http_posts, conn_held, send_log, notify_result>>

\* The registry alone: no endpoint registered yet, callers register, list
\* and delete.
EndpointInit ==
    /\ LedgerInit
    /\ account_owner = [a \in Accounts |-> 1]
    /\ auth = [p \in Procs |-> Null]
    /\ fetched = [p \in Procs |-> <<>>]
    /\ webhook_endpoints = <<>>
    /\ NotifierInit

EndpointNext ==
    CreateWebhookEndpoint \/ ListWebhookEndpoints \/ DeleteWebhookEndpoint

EndpointSpec == EndpointInit /\ [][EndpointNext]_vars

\* The ledger beside the notifier: worker 1's request goes through its handler
\* and after it worker 2 reads a transaction, while
\* notify_transaction_webhooks runs, with no endpoint registered or with one
\* endpoint of either business, active or deleted, whose answers are any of
\* HttpOutcomes.
OneEndpointTables ==
    {<<>>} \cup
    {<<WebhookEndpoint(1, o, RegisteredUrl, GenerateSecret(1), act)>> :
        o \in Owners, act \in BOOLEAN}

NonInterferenceInit ==
    /\ LedgerInit
    /\ account_owner \in Ownerships
    /\ auth = [p \in Procs |-> Null]
    /\ fetched = [p \in Procs |-> <<>>]
    /\ webhook_endpoints \in OneEndpointTables
    /\ NotifierInit

\* Worker 2 reads after worker 1 has returned.
ReadAfterWrite == pc[1] = "done" /\ ReadStep(2)

NonInterferenceNext ==
    \/ WriteStep(1)
    \/ ReadAfterWrite
    \/ NotifyCall \/ NotifyLoad \/ SendPost \/ HttpResponse \/ SendRecord

NonInterferenceSpec == NonInterferenceInit /\ [][NonInterferenceNext]_vars

WebhookInit ==
    /\ LedgerInit
    /\ account_owner = [a \in Accounts |-> 1]
    /\ auth = [p \in Procs |-> Null]
    /\ fetched = [p \in Procs |-> <<>>]
    /\ webhook_endpoints \in EndpointTables
    /\ NotifierInit

\* One registry call, a deletion, runs beside the notifier.
DeleteBesideNotifier ==
    /\ endpoint_result.op = "none"
    /\ DeleteWebhookEndpoint

WebhookNext ==
    \/ NotifyCall \/ NotifyLoad \/ SendPost \/ HttpResponse \/ SendRecord
    \/ DeleteBesideNotifier

WebhookSpec == WebhookInit /\ [][WebhookNext]_vars


\* ============================================================ properties
LookupLabels == {"credit_lookup", "debit_lookup", "transfer_lookup"}
InsertLabels == {"credit_insert", "debit_insert", "transfer_insert"}
CommitLabels == {"credit_commit", "debit_commit", "transfer_commit"}

\* The calls that returned the Transaction they themselves created.
Winners ==
    {p \in Procs : /\ pc[p] = "done"
                   /\ result[p].kind = "Ok"
                   /\ result[p].tx # <<>>
                   /\ result[p].tx[1].id = p}

\* What one application of request r adds to account a.
Delta(r, a) ==
    (IF r.to = a THEN r.amount ELSE 0) - (IF r.from = a THEN r.amount ELSE 0)

RECURSIVE SumDelta(_, _)
SumDelta(S, a) ==
    IF S = {} THEN 0
    ELSE LET p == CHOOSE x \in S : TRUE
         IN Delta(req[p], a) + SumDelta(S \ {p}, a)

RowsWithKey(k) == {i \in DOMAIN transactions : transactions[i].idempotency_key = k}

\* --- C1 ---------------------------------------------------------------
\* C1: starting from non-negative balances, under every interleaving of
\* credits, debits and transfers, every account's committed balance is >= 0.
BalanceNeverNegative ==
    \A a \in Accounts : balance_cents[a] >= 0

\* Two debits race on one account: one holds the row lock with a pending debit
\* that empties the account, the other waits at its SELECT ... FOR UPDATE.
RacingDebits ==
    \E p \in Procs, q \in Procs :
        /\ p # q
        /\ req[p].op = "debit" /\ req[q].op = "debit"
        /\ req[p].from = req[q].from /\ req[p].from \in Accounts
        /\ pc[p] = "debit_commit" /\ pc[q] = "debit_lock"
        /\ row_lock[req[p].from] = p
        /\ balance_cents[req[p].from] + tx_delta[p][req[p].from] = 0
        /\ req[q].amount > 0

\* --- C2 ---------------------------------------------------------------
\* C2: for every idempotency key k, in every reachable state, the transaction
\* log holds at most one Transaction whose idempotency_key is k.
AtMostOneRowPerKey ==
    \A k \in Keys : Cardinality(RowsWithKey(k)) <= 1

\* A call is about to insert a key that a concurrent call, which passed the
\* lookup at the same time, has already committed.
InsertAfterConcurrentCommit ==
    \E p \in Procs, q \in Procs :
        /\ p # q
        /\ req[p].key # Null /\ req[p].key = req[q].key
        /\ p \in Winners
        /\ pc[q] \in InsertLabels
        /\ RowsWithKey(req[q].key) # {}

\* --- C3 ---------------------------------------------------------------
\* C3: when two calls of the same request with the same idempotency key both
\* pass the initial lookup and one of them commits, the other (unless a
\* storage statement fails on its own) also returns Ok, with the identical
\* Transaction.
ConcurrentDuplicatesBothSucceed ==
    \A p \in Procs, q \in Procs :
        ( /\ p # q
          /\ req[p] = req[q] /\ req[p].key # Null
          /\ pc[p] = "done" /\ pc[q] = "done"
          /\ result[p].at \notin LookupLabels /\ result[q].at \notin LookupLabels
          /\ result[p].kind = "Ok"
          /\ result[q].sqlx # "io" )
        => (result[q].kind = "Ok" /\ result[q].tx = result[p].tx)

\* --- C4 ---------------------------------------------------------------
\* C4: for every idempotency key at most one call supplying it has its balance
\* delta applied: the committed balances are the initial balances plus one
\* application of each request whose call created a Transaction, and no key
\* has two such calls.
EffectAtMostOncePerKey ==
    /\ \A k \in Keys : Cardinality({p \in Winners : req[p].key = k}) <= 1
    /\ \A a \in Accounts :
          balance_cents[a] = InitialBalance + SumDelta(Winners, a)

\* Two calls of the same credit with the same key have returned, one created
\* the Transaction, and the account was credited once.
DuplicateCreditAppliedOnce ==
    \E p \in Procs, q \in Procs :
        /\ p # q
        /\ req[p] = req[q] /\ req[p].key # Null /\ req[p].op = "credit"
        /\ pc[p] = "done" /\ pc[q] = "done"
        /\ p \in Winners /\ q \notin Winners
        /\ balance_cents[req[p].to] = InitialBalance + req[p].amount

WaitsFor(p) ==
    IF pc[p] = "credit_update" /\ req[p].to \in Accounts THEN req[p].to
    ELSE IF pc[p] \in {"debit_lock", "transfer_lock_from"} /\ req[p].from \in Accounts
         THEN req[p].from
    ELSE IF pc[p] = "transfer_lock_to" /\ req[p].to \in Accounts THEN req[p].to
    ELSE Null

\* p waits for a row lock that q holds.
BlockedBy(p, q) == WaitsFor(p) # Null /\ row_lock[WaitsFor(p)] = q

\* C6: deadlock freedom of opposite transfers: no reachable state has each of
\* two transfers holding one row lock while waiting for the lock the other
\* holds.
NoMutualWait ==
    ~ \E p \in Procs, q \in Procs :
          /\ p # q
          /\ req[p].op = "transfer" /\ req[q].op = "transfer"
          /\ BlockedBy(p, q) /\ BlockedBy(q, p)

\* --- C7 ---------------------------------------------------------------
\* C7: execute_transfer takes its two row locks in an order that does not
\* depend on the direction: transfer(A,B) and transfer(B,A) lock the same
\* account first.
TransferLockOrderFixed ==
    \A p \in Procs, q \in Procs :
        ( /\ req[p].op = "transfer" /\ req[q].op = "transfer"
          /\ req[p].from = req[q].to /\ req[p].to = req[q].from
          /\ lock_log[p] # <<>> /\ lock_log[q] # <<>> )
        => Head(lock_log[p]) = Head(lock_log[q])

\* --- C8 ---------------------------------------------------------------
RECURSIVE SumBalance(_, _)
SumBalance(bal, S) ==
    IF S = {} THEN 0
    ELSE LET a == CHOOSE x \in S : TRUE
         IN bal[a] + SumBalance(bal, S \ {a})

\* C8: conservation: every step of an execute_transfer, whether the transfer
\* commits or fails, leaves the committed balance(from) + balance(to), and so
\* the sum of all committed balances, as it was.
TransferConservesBalance ==
    [][\A p \in Procs :
          (req'[p].op = "transfer" /\ pc'[p] # pc[p])
          => /\ SumBalance(balance_cents', Accounts) = SumBalance(balance_cents, Accounts)
             /\ SumBalance(balance_cents', {req'[p].from, req'[p].to} \cap Accounts)
                  = SumBalance(balance_cents, {req'[p].from, req'[p].to} \cap Accounts)
      ]_vars

\* A transfer committed: the source went down and the destination up by the
\* amount.
TransferCommitted ==
    \E p \in Winners :
        /\ req[p].op = "transfer"
        /\ balance_cents[req[p].from] = InitialBalance - req[p].amount
        /\ balance_cents[req[p].to] = InitialBalance + req[p].amount

\* --- C9 ---------------------------------------------------------------
\* C9: all-or-nothing: a call that returns an error leaves the committed
\* balances and the Transaction rows as they were and keeps nothing of its
\* unit of work; the committed state changes only in the step in which a
\* call's COMMIT succeeds.
FailedCallChangesNothing ==
    [][ /\ \A p \in Procs :
             (pc[p] # "done" /\ pc'[p] = "done" /\ result'[p].kind # "Ok")
             => /\ UNCHANGED <<balance_cents, transactions>>
                /\ tx_delta'[p] = ZeroDelta /\ tx_row'[p] = <<>>
                /\ \A a \in Accounts : row_lock'[a] # p
        /\ (balance_cents' # balance_cents \/ transactions' # transactions)
             => \E p \in Procs :
                   /\ pc[p] \in CommitLabels /\ pc'[p] = "done"
                   /\ result'[p].kind = "Ok"
      ]_vars

\* A call failed with a storage error at its INSERT or its COMMIT, after its
\* balance updates, and the balances and the log are as at the start.
FailedAfterBalanceUpdate ==
    \E p \in Procs :
        /\ pc[p] = "done"
        /\ result[p].kind = "Database"
        /\ result[p].at \in InsertLabels \cup CommitLabels
        /\ lock_log[p] # <<>>
        /\ balance_cents = [a \in Accounts |-> InitialBalance]
        /\ transactions = <<>>

\* --- C10 --------------------------------------------------------------
\* The returns the claim is about: a debit or transfer on an existing source
\* account that passed validation, had no idempotency hit and met no storage
\* error.
BalanceDecided(p, at, res) ==
    /\ req[p].op \in {"debit", "transfer"}
    /\ req[p].from \in Accounts
    /\ at \notin LookupLabels \cup {"idle"}
    /\ res.kind # "Database"

InvalidAmountKindReturned ==
    \A p \in Procs :
        (pc[p] = "done" /\ req[p].op # "none" /\ req[p].amount <= 0)
        => (result[p].kind = "InvalidAmount" /\ result[p].at = "idle")

\* C11 as amended: a call whose amount is <= 0 returns
\* InvalidRequest("Amount must be positive") in its first step, before any
\* storage access: no idempotency lookup (a key that is on a committed
\* Transaction does not return it), no unit of work, no lock, and the
\* balances and the Transaction rows stay as they were.
NonPositiveAmountRejectedFirst ==
    [][\A p \in Procs :
          (pc[p] = "idle" /\ pc'[p] # "idle" /\ req'[p].amount <= 0)
          => /\ pc'[p] = "done"
             /\ result'[p].kind = "InvalidRequest"
             /\ result'[p].msg = "Amount must be positive"
             /\ result'[p].tx = <<>>
             /\ UNCHANGED <<balance_cents, transactions, row_lock, tx_delta,
                            tx_row, lock_log>>
      ]_vars

\* A call with amount 0 named a key that is on a committed Transaction and
\* was rejected all the same.
ZeroAmountWithUsedKeyRejected ==
    \E p \in Procs :
        /\ pc[p] = "done"
        /\ req[p].op # "none" /\ req[p].amount <= 0
        /\ req[p].key # Null /\ RowsWithKey(req[p].key) # {}
        /\ result[p].kind = "InvalidRequest"
        /\ lock_log[p] = <<>>

\* --- C12 --------------------------------------------------------------
\* The Transaction a request describes, as worker p's call records it.
RowOf(p, r) == Transaction(p, r.op, r.from, r.to, r.amount, r.key)

\* C12: the step in which a call succeeds with a Transaction of its own
\* applies exactly the request's delta to the committed balances (+n to the
\* account of a credit, -n to that of a debit, -n to the source and +n to the
\* destination of a transfer, nothing to any other account) and adds exactly
\* one Transaction, completed, with the request's kind, accounts and amount,
\* which is the one returned.
SuccessAppliesExactlyItsDelta ==
    [][\A p \in Procs :
          ( /\ pc[p] \in CommitLabels /\ pc'[p] = "done"
            /\ result'[p].kind = "Ok" )
          => /\ \A a \in Accounts :
                   balance_cents'[a] = balance_cents[a] + Delta(req[p], a)
             /\ transactions' = Append(transactions, RowOf(p, req[p]))
             /\ result'[p].tx = <<RowOf(p, req[p])>>
             /\ RowOf(p, req[p]).status = "completed"
      ]_vars

\* A debit of n committed on an account that holds
\* InitialBalance: the balance went down by n and the log holds the debit row.
DebitApplied ==
    \E p \in Winners :
        /\ req[p].op = "debit"
        /\ balance_cents[req[p].from] = InitialBalance - req[p].amount
        /\ transactions = <<RowOf(p, req[p])>>
        /\ transactions[1].transaction_type = "debit"
        /\ transactions[1].amount_cents = req[p].amount

\* --- C13 --------------------------------------------------------------
\* The steps of a debit or transfer after its balance read, the unit of work
\* still open.
AfterBalanceRead ==
    {"debit_update", "debit_insert", "debit_commit", "transfer_lock_to",
     "transfer_debit", "transfer_credit", "transfer_insert", "transfer_commit"}

\* C13: no lost update: the committed balance of every account is the initial
\* balance plus the deltas of exactly the operations that succeeded, and the
\* balance an operation read for its check is the committed balance (the
\* result of every operation that held the row lock before it) from the read
\* until the operation ends, the row lock being its own all that time.
NoLostUpdate ==
    /\ \A a \in Accounts :
          balance_cents[a] = InitialBalance + SumDelta(Winners, a)
    /\ \A p \in Procs :
          pc[p] \in AfterBalanceRead
          => /\ row_lock[req[p].from] = p
             /\ from_balance[p] = balance_cents[req[p].from]

\* Two operations on one account both succeeded, the second a debit that read
\* the balance the first, a credit, had committed.
DebitSawCommittedCredit ==
    \E p \in Winners, q \in Winners :
        /\ p # q
        /\ req[p].op = "credit" /\ req[q].op = "debit"
        /\ req[p].to = req[q].from
        /\ from_balance[q] = InitialBalance + req[p].amount
        /\ balance_cents[req[q].from]
             = InitialBalance + req[p].amount - req[q].amount

\* --- C14 --------------------------------------------------------------
\* C14: no partial visibility: a step of a transfer that changes anything
\* other calls can read (a committed balance or the Transaction rows) changes
\* the source balance, the destination balance and the Transaction rows
\* together: the debit, the credit and the row become visible in one step.
TransferVisibleAtOnce ==
    [][\A p \in Procs :
          ( /\ req[p].op = "transfer" /\ pc'[p] # pc[p]
            /\ (balance_cents' # balance_cents \/ transactions' # transactions) )
          => /\ balance_cents'[req[p].from]
                  = balance_cents[req[p].from] - req[p].amount
             /\ balance_cents'[req[p].to] = balance_cents[req[p].to] + req[p].amount
             /\ transactions' = Append(transactions, RowOf(p, req[p]))
      ]_vars

\* A transfer has written both balances and its row inside its unit of work
\* and not committed; the committed state another call reads, here one that
\* waits for a row the transfer locked, shows none of it.
TransferPendingInvisible ==
    \E p \in Procs, q \in Procs :
        /\ p # q
        /\ pc[p] = "transfer_commit"
        /\ tx_delta[p][req[p].from] = 0 - req[p].amount
        /\ tx_delta[p][req[p].to] = req[p].amount
        /\ tx_row[p] # <<>>
        /\ BlockedBy(q, p)
        /\ balance_cents = [a \in Accounts |-> InitialBalance]
        /\ transactions = <<>>

\* --- C17 --------------------------------------------------------------
\* C17: round trip: once a call has returned Ok(t), get_transaction_by_id(t.id)
\* finds one Transaction, with status completed and t's amount, source and
\* destination.
ReturnedTransactionIsStored ==
    \A p \in Procs :
        (pc[p] = "done" /\ result[p].kind = "Ok")
        => LET t == result[p].tx[1]
               found == GetTransactionById(t.id)
           IN /\ Len(found) = 1
              /\ found[1].status = "completed"
              /\ found[1].amount_cents = t.amount_cents
              /\ found[1].from_account_id = t.from_account_id
              /\ found[1].to_account_id = t.to_account_id

\* A transfer returned its Transaction and the read by id gives it back.
TransferReadBack ==
    \E p \in Winners :
        /\ req[p].op = "transfer"
        /\ GetTransactionById(result[p].tx[1].id) = result[p].tx
        /\ result[p].tx[1].from_account_id = req[p].from
        /\ result[p].tx[1].to_account_id = req[p].to

\* --- C15 --------------------------------------------------------------
\* The accounts a Transaction names.
AccountsOf(t) == {t.from_account_id, t.to_account_id} \ {Null}

\* C15: no visibility across owners: a Transaction returned to a request of
\* business O names an account of O, also when the request carries an
\* idempotency key that another business has used.
NoCrossOwnerVisibility ==
    \A p \in Procs :
        (pc[p] = "done" /\ auth[p] # Null /\ result[p].kind = "Ok")
        => \E a \in AccountsOf(result[p].tx[1]) : Owns(auth[p], a)

\* --- C16 --------------------------------------------------------------
\* The account ids a request names.
NamedAccounts(r) == {r.from, r.to} \ {Null}

\* C16: no mutation across owners: a request of business O that names an
\* account O does not own (for a transfer: as source or as destination) is
\* answered in the handler, with AccountNotFound (or the storage error of the
\* ownership SELECT), and changes no balance and no Transaction row, opens no
\* unit of work and takes no lock.
ForeignAccountRefused ==
    [][\A p \in Procs :
          ( /\ pc[p] = "idle" /\ pc'[p] # "idle"
            /\ \E a \in NamedAccounts(req'[p]) : ~Owns(auth'[p], a) )
          => /\ pc'[p] = "done"
             /\ \/ result'[p].kind = "AccountNotFound"
                \/ result'[p].kind = "Database" /\ result'[p].sqlx = "io"
             /\ UNCHANGED <<balance_cents, transactions, row_lock, tx_delta,
                            tx_row, lock_log>>
      ]_vars

\* A transfer of an affordable amount from the requester's own account to an
\* existing account of another business was answered AccountNotFound, and the
\* balances and the log are as at the start.
TransferToForeignAccountRefused ==
    \E p \in Procs :
        /\ pc[p] = "done" /\ req[p].op = "transfer"
        /\ Owns(auth[p], req[p].from)
        /\ req[p].to \in Accounts /\ ~Owns(auth[p], req[p].to)
        /\ req[p].amount > 0 /\ req[p].amount <= InitialBalance
        /\ result[p].kind = "AccountNotFound"
        /\ lock_log[p] = <<>>
        /\ balance_cents = [a \in Accounts |-> InitialBalance]
        /\ transactions = <<>>

\* --- C18 --------------------------------------------------------------
\* The WebhookEvents recorded for endpoint e and Transaction t.
EventsFor(e, t) ==
    {i \in DOMAIN webhook_events :
        /\ webhook_events[i].webhook_endpoint_id = e
        /\ webhook_events[i].transaction_id = t}

\* C18: once every request has been answered, each Transaction committed by
\* a request of business O has exactly one WebhookEvent for every active
\* endpoint of O.
CommittedTransactionDelivered ==
    (\A p \in Procs : pc[p] = "done")
    => \A p \in Winners :
          auth[p] # Null
          => \A i \in DOMAIN webhook_endpoints :
                ( /\ webhook_endpoints[i].api_key_id = auth[p]
                  /\ webhook_endpoints[i].is_active )
                => Cardinality(EventsFor(webhook_endpoints[i].id,
                                         result[p].tx[1].id)) = 1

\* --- C19 --------------------------------------------------------------
\* The ids of the endpoints of a sequence of rows or of log entries.
EndpointIdsOf(rows) == [i \in DOMAIN rows |-> rows[i].id]

SendLogEndpointIds == [i \in DOMAIN send_log |-> send_log[i].endpoint_id]

\* C19: in notify_transaction_webhooks a failed send_webhook never keeps a
\* later endpoint from its attempt: while the loop runs the endpoints before
\* the current one have had one send_webhook call each, in order, and when
\* the call has returned every loaded endpoint has had exactly one.
EveryLoadedEndpointAttemptedOnce ==
    /\ notify_pc \in {"send_post", "post_in_flight", "send_record"}
         => SendLogEndpointIds
              = SubSeq(EndpointIdsOf(endpoints), 1, endpoint_index - 1)
    /\ notify_pc = "done" => SendLogEndpointIds = EndpointIdsOf(endpoints)

\* Two endpoints were loaded, send_webhook failed for the first and the second
\* got its POST all the same.
SecondAttemptedAfterFirstFailed ==
    /\ notify_pc = "done"
    /\ Len(endpoints) >= 2 /\ Len(send_log) >= 2
    /\ send_log[1].returned # "Ok"
    /\ send_log[2].posted
    /\ send_log[2].endpoint_id = endpoints[2].id

WellFormed(t) ==
    /\ t.transaction_type \in {"credit", "debit", "transfer"}
    /\ t.transaction_type = "credit"
         => t.from_account_id = Null /\ t.to_account_id # Null
    /\ t.transaction_type = "debit"
         => t.from_account_id # Null /\ t.to_account_id = Null
    /\ t.transaction_type = "transfer"
         => /\ t.from_account_id # Null /\ t.to_account_id # Null
            /\ t.from_account_id # t.to_account_id
    /\ t.amount_cents > 0
    /\ t.status = "completed"

\* C28: every committed Transaction row is well-formed (accounts present or
\* absent as its kind demands, distinct for a transfer, amount > 0, status
\* completed) and is the row of a call that succeeded: no row is kept for a
\* failed or unfinished call.
EveryRowWellFormed ==
    \A i \in DOMAIN transactions :
        /\ WellFormed(transactions[i])
        /\ transactions[i].id \in Winners
        /\ transactions[i] = RowOf(transactions[i].id, req[transactions[i].id])

\* The log holds two rows of different kinds, a transfer and a debit.
TransferAndDebitLogged ==
    /\ Len(transactions) = 2
    /\ transactions[1].transaction_type = "transfer"
    /\ transactions[2].transaction_type = "debit"

\* --- C29 --------------------------------------------------------------
\* What the logged Transactions add up to for account a.
RECURSIVE LogDelta(_, _)
LogDelta(log, a) ==
    IF log = <<>> THEN 0
    ELSE (IF Head(log).to_account_id = a THEN Head(log).amount_cents ELSE 0)
         - (IF Head(log).from_account_id = a THEN Head(log).amount_cents ELSE 0)
         + LogDelta(Tail(log), a)

\* C29: ledger/log agreement: in every committed state each account's
\* balance is its initial balance plus the amounts of the logged Transactions
\* naming it as to_account minus those naming it as from_account.
LedgerAgreesWithLog ==
    \A a \in Accounts :
        balance_cents[a] = InitialBalance + LogDelta(transactions, a)

\* Two Transactions naming one account are logged, one moving money in and
\* one moving a different amount out, and the balance shows both.
AccountCreditedAndDebited ==
    \E a \in Accounts :
        /\ Len(transactions) = 2
        /\ transactions[1].to_account_id = a
        /\ transactions[2].from_account_id = a
        /\ transactions[1].amount_cents # transactions[2].amount_cents
        /\ balance_cents[a] = InitialBalance + transactions[1].amount_cents
                                - transactions[2].amount_cents

\* --- C30 --------------------------------------------------------------
\* C30: the transaction log is append-only: no step of a credit, debit,
\* transfer or get_transaction changes or removes a committed Transaction
\* row; the rows after a step are the rows before it, possibly with new
\* ones behind them.
LogAppendOnly ==
    [][/\ Len(transactions') >= Len(transactions)
       /\ SubSeq(transactions', 1, Len(transactions)) = transactions
      ]_vars

\* A Transaction was committed and then read back by get_transaction: the
\* row is still what its creator was given.
ReadBackUnchanged ==
    \E p \in Winners, q \in Procs :
        /\ pc[q] = "done" /\ req[q].op = "get" /\ req[q].id = p
        /\ result[q].kind = "Ok" /\ result[q].tx = result[p].tx
        /\ transactions = result[p].tx

\* --- C21 --------------------------------------------------------------
\* C21: notify_transaction_webhooks never returns an error because of a
\* webhook failure: once its endpoints are loaded it returns Ok whatever the
\* calls of send_webhook returned; the one error it returns is that of a
\* failed load, before any send_webhook.
NotifyReturnsOkAfterLoad ==
    notify_pc = "done"
    => /\ send_log # <<>> => notify_result = "Ok"
       /\ notify_result # "Ok"
            => /\ notify_result = "Database"
               /\ send_log = <<>> /\ http_posts = <<>> /\ endpoints = <<>>

\* Every send_webhook of a call failed, the last one too, and the call
\* returned Ok.
AllSendsFailedNotifyOk ==
    /\ notify_pc = "done" /\ notify_result = "Ok"
    /\ send_log # <<>>
    /\ \A i \in DOMAIN send_log : send_log[i].returned # "Ok"
    /\ \E i \in DOMAIN send_log : send_log[i].returned = "Database"

\* --- C26 --------------------------------------------------------------
\* The row of the webhook_endpoints table with the given id.
EndpointById(id) ==
    CHOOSE e \in {webhook_endpoints[i] : i \in DOMAIN webhook_endpoints} :
        e.id = id

\* C26: the X-Webhook-Signature header of every POST is "sha256=" followed by
\* the hex HMAC-SHA256, keyed with the secret of the endpoint the POST goes
\* to, of the POST's body, and the body is the serialized payload of the
\* attempt.
SignatureCoversBodySent ==
    \A i \in DOMAIN http_posts :
       LET post == http_posts[i]
           endpoint == EndpointById(post.endpoint_id)
       IN /\ post.signature
               = <<"sha256=", HexHmacSha256(endpoint.secret, post.body)>>
          /\ post.url = endpoint.url
          /\ post.body[1] = "json"
          /\ post.body[2].event_id = post.event_id
          /\ post.body[2].data.transaction.id = notify_args.transaction[1].id

\* Two endpoints with different secrets got their POSTs, signed differently.
TwoEndpointsSignedWithOwnSecrets ==
    /\ Len(http_posts) = 2
    /\ http_posts[1].endpoint_id # http_posts[2].endpoint_id
    /\ http_posts[1].signature # http_posts[2].signature
    /\ http_posts[1].signature[1] = "sha256="

\* --- C27 --------------------------------------------------------------
\* C27: while the HTTP request of send_webhook is in flight the notifier holds
\* no pooled connection: the one its SELECT used is back in the pool and the
\* one the INSERT of the event uses is not taken before the response, the
\* timeout or the connection error; the event of an attempt is stored only
\* after its request has ended.
NoConnectionHeldInFlight ==
    notify_pc = "post_in_flight"
         => /\ conn_held = 0
            /\ Len(webhook_events) < Len(http_posts)
            /\ response = NoResponse

\* The second request is in flight after the first attempt's event was stored.
SecondPostInFlightAfterEventStored ==
    /\ notify_pc = "post_in_flight"
    /\ Len(http_posts) = 2
    /\ Len(webhook_events) = 1
    /\ endpoints # <<>>

\* --- C25 --------------------------------------------------------------
\* Every WebhookEvent's webhook_endpoint_id is the id of a row of the table.
EventsReferToRows ==
    \A i \in DOMAIN webhook_events :
       \E j \in DOMAIN webhook_endpoints :
          webhook_endpoints[j].id = webhook_events[i].webhook_endpoint_id

\* C25: a step that changes the webhook_endpoints table of registered rows
\* removes none of them and changes nothing of a row but is_active, which it
\* sets to false, and leaves every WebhookEvent as it was; after every step
\* each WebhookEvent still refers to a row of the table.
SoftDeleteKeepsRowsAndEvents ==
    [][/\ EventsReferToRows'
       /\ webhook_endpoints' # webhook_endpoints
            => /\ DOMAIN webhook_endpoints' = DOMAIN webhook_endpoints
               /\ \A i \in DOMAIN webhook_endpoints :
                     /\ webhook_endpoints'[i].id = webhook_endpoints[i].id
                     /\ webhook_endpoints'[i].api_key_id
                          = webhook_endpoints[i].api_key_id
                     /\ webhook_endpoints'[i].url = webhook_endpoints[i].url
                     /\ webhook_endpoints'[i].secret
                          = webhook_endpoints[i].secret
                     /\ webhook_endpoints'[i].is_active
                          => webhook_endpoints[i].is_active
               /\ webhook_events' = webhook_events
      ]_vars

\* An endpoint got a delivery, its event was stored, and then its owner deleted
\* it: the row is inactive and the event still refers to it.
DeletedEndpointKeepsEvent ==
    /\ endpoint_result.op = "delete" /\ endpoint_result.kind = "Ok"
    /\ \E i \in DOMAIN webhook_events, j \in DOMAIN webhook_endpoints :
          /\ webhook_endpoints[j].id = webhook_events[i].webhook_endpoint_id
          /\ ~webhook_endpoints[j].is_active

SecretShownOnlyAtCreation ==
    /\ (endpoint_result.op = "create" /\ endpoint_result.kind = "Ok")
         => /\ Len(endpoint_result.body) = 1
            /\ endpoint_result.body[1].secret
                 = <<EndpointById(endpoint_result.body[1].id).secret>>
    /\ endpoint_result.op = "list"
         => \A i \in DOMAIN endpoint_result.body :
               endpoint_result.body[i].secret = <<>>
    /\ secret_exposures = EndpointIdsOf(webhook_endpoints)

\* Two endpoints of one owner were registered and then listed: the list names
\* both, newest first, without secrets.
TwoEndpointsListedWithoutSecret ==
    /\ endpoint_result.op = "list" /\ endpoint_result.kind = "Ok"
    /\ Len(endpoint_result.body) = 2
    /\ endpoint_result.body[1].id = 2 /\ endpoint_result.body[2].id = 1
    /\ Len(secret_exposures) = 2

\* --- C22 --------------------------------------------------------------
\* C22: what a ledger request returns and the balances and the log it leaves
\* are determined by the request, its caller and the accounts alone, whatever
\* endpoints are registered and whatever they answer (nothing, 2xx, an error
\* status, a timeout, a connection error): unless storage fails, the request
\* of worker 1 returns AccountNotFound, InvalidRequest, InsufficientBalance
\* or Ok as ownership, amount and balance say, balances and log change only
\* by an Ok request's own effect, and the read after it returns the logged
\* transaction exactly if the reader owns one of its accounts.
LedgerIndependentOfWebhooks ==
    LET r == req[1]
        o == auth[1]
        mine(a) == a \in Accounts /\ account_owner[a] = o
        owned == CASE r.op = "credit" -> mine(r.to)
                   [] r.op = "debit" -> mine(r.from)
                   [] r.op = "transfer" ->
                        mine(r.from) /\ mine(r.to) /\ r.from # r.to
                   [] OTHER -> FALSE
        kind == IF ~owned THEN "AccountNotFound"
                ELSE IF r.amount <= 0 THEN "InvalidRequest"
                ELSE IF r.op \in {"debit", "transfer"}
                        /\ InitialBalance < r.amount
                  THEN "InsufficientBalance"
                ELSE "Ok"
        row == [id |-> 1, idempotency_key |-> r.key,
                transaction_type |-> r.op, from_account_id |-> r.from,
                to_account_id |-> r.to, amount_cents |-> r.amount,
                status |-> "completed"]
        returned == pc[1] = "done" /\ result[1].sqlx # "io"
        committed == returned /\ kind = "Ok"
        readable == /\ committed /\ req[2].id = 1
                    /\ \E a \in Accounts :
                          /\ account_owner[a] = auth[2]
                          /\ a \in {r.from, r.to}
    IN /\ returned
            => /\ result[1].kind = kind
               /\ result[1].tx = IF kind = "Ok" THEN <<row>> ELSE <<>>
       /\ transactions = IF committed THEN <<row>> ELSE <<>>
       /\ balance_cents =
            [a \in Accounts |->
                IF ~committed THEN InitialBalance
                ELSE IF a = r.to THEN InitialBalance + r.amount
                ELSE IF a = r.from THEN InitialBalance - r.amount
                ELSE InitialBalance]
       /\ (pc[2] = "done" /\ result[2].sqlx # "io")
            => /\ result[2].kind = IF readable THEN "Ok" ELSE "AccountNotFound"
               /\ result[2].tx = IF readable THEN <<row>> ELSE <<>>

\* A transfer committed and was read back while the one registered endpoint
\* timed out on one notification; nothing of it shows in the ledger.
TransferReadBackBesideTimeout ==
    /\ pc[1] = "done" /\ result[1].kind = "Ok" /\ req[1].op = "transfer"
    /\ pc[2] = "done" /\ result[2].kind = "Ok"
    /\ Len(webhook_endpoints) = 1
    /\ Len(webhook_events) = 1
    /\ webhook_events[1].response_status = Null

\* --- C31 --------------------------------------------------------------
\* C31: an execute_transfer that got past validation and the idempotency
\* lookup, whose source account exists and whose destination account does
\* not, and that no storage failure ended, returns AccountNotFound, whatever
\* the source balance is.
MissingDestinationReportedFirst ==
    \A p \in Procs :
       (/\ pc[p] = "done" /\ req[p].op = "transfer"
        /\ req[p].from \in Accounts /\ req[p].to \notin Accounts
        /\ result[p].at \in {"transfer_lock_from", "transfer_lock_to"}
        /\ result[p].sqlx = "none")
         => result[p].kind = "AccountNotFound"

\* --- C32 --------------------------------------------------------------
\* C32: the step in which execute_transfer is called with from equal to to
\* and a positive amount returns InvalidRequest("Cannot transfer to same
\* account") at once: the call is done without a lookup, a unit of work or a
\* lock, and balances, log and every unit of work are as they were.
SameAccountTransferRejectedAtOnce ==
    [][\A p \in Procs :
          (/\ pc[p] = "idle" /\ req'[p].op = "transfer"
           /\ req'[p].from = req'[p].to /\ req'[p].amount > 0)
            => /\ pc'[p] = "done"
               /\ result'[p].kind = "InvalidRequest"
               /\ result'[p].msg = "Cannot transfer to same account"
               /\ result'[p].at = "idle"
               /\ UNCHANGED <<balance_cents, transactions, row_lock, tx_delta,
                              tx_row, from_balance, lock_log>>
      ]_vars

\* A same-account transfer was rejected although it carried the idempotency
\* key of a logged transaction: the lookup was never made.
SameAccountRejectedDespiteUsedKey ==
    \E p \in Procs :
       /\ pc[p] = "done" /\ req[p].op = "transfer"
       /\ req[p].from = req[p].to /\ req[p].amount > 0
       /\ result[p].kind = "InvalidRequest"
       /\ req[p].key # Null
       /\ \E i \in DOMAIN transactions :
             transactions[i].idempotency_key = req[p].key

\* --- C33 --------------------------------------------------------------
\* C33: a transfer request through create_transfer whose from and to name the
\* same account, owned by the caller, is answered InvalidRequest (unless
\* storage fails).
SameAccountTransferAnsweredInvalidRequest ==
    \A p \in Procs :
       (/\ pc[p] = "done" /\ req[p].op = "transfer"
        /\ req[p].from = req[p].to /\ Owns(auth[p], req[p].from)
        /\ result[p].sqlx # "io")
         => result[p].kind = "InvalidRequest"

\* --- C34 --------------------------------------------------------------
\* C34: a call that has returned, by whichever path, has ended its unit of
\* work: it holds no pooled connection and no row lock, none of its writes is
\* pending, and no other call waits for a lock of it; row locks and pending
\* writes belong to open units of work of calls still running only.
EveryReturnEndsUnitOfWork ==
    \A p \in Procs :
       /\ pc[p] = "done"
            => /\ ~tx_open[p]
               /\ \A q \in Procs : ~BlockedBy(q, p)
       /\ ~tx_open[p]
            => /\ \A a \in Accounts : row_lock[a] # p
               /\ tx_delta[p] = ZeroDelta
               /\ tx_row[p] = <<>>
       /\ tx_open[p] => pc[p] \notin {"idle", "done"}

\* A debit returned InsufficientBalance after it had locked the account, and
\* a later call now holds the lock of the same account.
LockReleasedToLaterCall ==
    \E p \in Procs, q \in Procs :
       /\ p # q
       /\ pc[p] = "done" /\ result[p].kind = "InsufficientBalance"
       /\ req[p].op = "debit"
       /\ row_lock[req[p].from] = q
       /\ tx_open[q] /\ ~tx_open[p]

\* --- C35 --------------------------------------------------------------
\* C35: the Transaction a successful credit, debit or transfer returns has
\* the kind of the operation called, the accounts passed and the amount
\* passed.
ReturnedTransactionDescribesRequest ==
    \A p \in Procs :
       (/\ pc[p] = "done" /\ result[p].kind = "Ok"
        /\ req[p].op \in {"credit", "debit", "transfer"})
         => /\ result[p].tx # <<>>
            /\ result[p].tx[1].transaction_type = req[p].op
            /\ result[p].tx[1].from_account_id = req[p].from
            /\ result[p].tx[1].to_account_id = req[p].to
            /\ result[p].tx[1].amount_cents = req[p].amount

\* --- C36 --------------------------------------------------------------
\* C36: frame.  The step in which a credit, debit or transfer commits
\* changes the balance of each account the request names and of no other
\* account, appends exactly one row to the log and leaves the endpoint table
\* alone; every other step, and so every step of a rejected call, changes
\* neither a balance, nor the log, nor an endpoint.
SuccessChangesOnlyWhatItNames ==
    [][LET Commits(p) == /\ pc[p] \in CommitLabels /\ pc'[p] = "done"
                         /\ result'[p].kind = "Ok"
           Named(p) == {req[p].from, req[p].to} \cap Accounts
       IN  /\ \A p \in Procs :
                Commits(p)
                 => /\ \A a \in Accounts \ Named(p) :
                          balance_cents'[a] = balance_cents[a]
                    /\ \A a \in Named(p) : balance_cents'[a] # balance_cents[a]
                    /\ Len(transactions') = Len(transactions) + 1
                    /\ SubSeq(transactions', 1, Len(transactions)) = transactions
                    /\ webhook_endpoints' = webhook_endpoints
           /\ \A p \in Procs :
                (pc[p] # "done" /\ pc'[p] = "done" /\ result'[p].kind # "Ok")
                 => UNCHANGED <<balance_cents, transactions, webhook_endpoints>>
           /\ (\A p \in Procs : ~Commits(p))
                 => UNCHANGED <<balance_cents, transactions, webhook_endpoints>>
      ]_vars

\* A credit to account 1 was committed beside a refused debit from account 2:
\* one row logged, account 2 as it was.
CreditBesideRefusedDebit ==
    \E p \in Procs, q \in Procs :
       /\ pc[p] = "done" /\ req[p].op = "credit" /\ req[p].to = 1
       /\ result[p].kind = "Ok" /\ result[p].at \in CommitLabels
       /\ pc[q] = "done" /\ req[q].op = "debit" /\ req[q].from = 2
       /\ result[q].kind = "InsufficientBalance"
       /\ balance_cents[1] = InitialBalance + req[p].amount
       /\ balance_cents[2] = InitialBalance
       /\ Len(transactions) = 1

\* --- C37 --------------------------------------------------------------
\* C37: the endpoints a call of notify_transaction_webhooks works through are
\* rows that, at its load, belonged to the owner passed and were active; the
\* list is not changed afterwards, and every POST made and every event
\* stored by the call is for an endpoint of that list.  So an endpoint of
\* another owner, or one made inactive before the load, gets neither.
OnlyOwnActiveEndpointsNotified ==
    [][LET Rows == {webhook_endpoints[i] : i \in DOMAIN webhook_endpoints}
           LoadedIds == {endpoints'[i].id : i \in DOMAIN endpoints'}
       IN  /\ notify_pc = "notify_load"
                => \A i \in DOMAIN endpoints' :
                      /\ endpoints'[i] \in Rows
                      /\ endpoints'[i].api_key_id = notify_args.api_key_id
                      /\ endpoints'[i].is_active
           /\ notify_pc # "notify_load" => endpoints' = endpoints
           /\ \A i \in DOMAIN http_posts' :
                 http_posts'[i].endpoint_id \in LoadedIds
           /\ \A i \in DOMAIN webhook_events' :
                 webhook_events'[i].webhook_endpoint_id \in LoadedIds
      ]_vars

\* Both endpoints belong to the owner notified; one was deactivated by its
\* owner and is passed over, the other got the POST and the event.
DeactivatedEndpointPassedOver ==
    \E e \in EndpointIds, d \in EndpointIds :
       /\ e # d
       /\ notify_pc = "done" /\ notify_result = "Ok"
       /\ EndpointById(e).api_key_id = notify_args.api_key_id
       /\ EndpointById(d).api_key_id = notify_args.api_key_id
       /\ endpoint_result.op = "delete" /\ endpoint_result.kind = "Ok"
       /\ endpoint_result.request.endpoint_id = d
       /\ ~EndpointById(d).is_active
       /\ Len(http_posts) = 1 /\ http_posts[1].endpoint_id = e
       /\ Len(webhook_events) = 1
       /\ webhook_events[1].webhook_endpoint_id = e

\* --- C38 --------------------------------------------------------------
\* C38: a delete_webhook_endpoint call whose id names no row, or a row of
\* another owner, returns WebhookNotFound (or the storage error of a failed
\* statement) and leaves the endpoint table as it was; an is_active flag
\* goes from true to false only in a successful delete call made by the
\* row's owner for that row's id.
OnlyOwnerDeactivates ==
    [][LET request == endpoint_result'.request
           Deletes == endpoint_result'.op = "delete"
           Owned == \E i \in DOMAIN webhook_endpoints :
                       /\ webhook_endpoints[i].id = request.endpoint_id
                       /\ webhook_endpoints[i].api_key_id = request.api_key_id
       IN  /\ (Deletes /\ ~Owned)
                => /\ endpoint_result'.kind \in {"WebhookNotFound", "Database"}
                   /\ webhook_endpoints' = webhook_endpoints
           /\ \A i \in DOMAIN webhook_endpoints :
                 (webhook_endpoints[i].is_active
                    /\ ~webhook_endpoints'[i].is_active)
                  => /\ Deletes
                     /\ endpoint_result'.kind = "Ok"
                     /\ request.endpoint_id = webhook_endpoints[i].id
                     /\ request.api_key_id = webhook_endpoints[i].api_key_id
      ]_vars

\* A delete call for an existing endpoint, made by a business that does not
\* own it, was answered not-found and the endpoint is still active.
ForeignDeleteAnsweredNotFound ==
    \E i \in DOMAIN webhook_endpoints :
       /\ endpoint_result.op = "delete"
       /\ endpoint_result.kind = "WebhookNotFound"
       /\ endpoint_result.request.endpoint_id = webhook_endpoints[i].id
       /\ endpoint_result.request.api_key_id # webhook_endpoints[i].api_key_id
       /\ webhook_endpoints[i].is_active

\* --- C39 --------------------------------------------------------------
\* C39: each delivery attempt has one event id of its own.  The id in the
\* X-Webhook-Event-Id header of a POST is the event_id of the payload in its
\* body; a stored event has the id of exactly one POST, that POST went to the
\* event's endpoint, and the payload stored is the payload that POST
\* carried; no two attempts, no two POSTs and no two events share an id.
OneEventIdPerAttempt ==
    /\ \A i \in DOMAIN http_posts :
          /\ FromJson(http_posts[i].body).event_id = http_posts[i].event_id
          /\ \E a \in DOMAIN send_log \cup {Len(send_log) + 1} :
                IF a \in DOMAIN send_log
                  THEN /\ send_log[a].event_id = http_posts[i].event_id
                       /\ send_log[a].posted
                       /\ send_log[a].endpoint_id = http_posts[i].endpoint_id
                  ELSE /\ notify_pc \in {"post_in_flight", "send_record"}
                       /\ i = Len(http_posts)
    /\ \A k \in DOMAIN webhook_events :
          LET event == webhook_events[k]
              Sent == {i \in DOMAIN http_posts :
                          http_posts[i].event_id = event.id}
          IN /\ Cardinality(Sent) = 1
             /\ \A i \in Sent :
                   /\ event.payload = FromJson(http_posts[i].body)
                   /\ event.payload.event_id = event.id
                   /\ event.webhook_endpoint_id = http_posts[i].endpoint_id
    /\ \A i \in DOMAIN http_posts, j \in DOMAIN http_posts :
          i # j => http_posts[i].event_id # http_posts[j].event_id
    /\ \A k \in DOMAIN webhook_events, l \in DOMAIN webhook_events :
          k # l => webhook_events[k].id # webhook_events[l].id
    /\ \A a \in DOMAIN send_log, b \in DOMAIN send_log :
          a # b => send_log[a].event_id # send_log[b].event_id

\* Two endpoints were delivered to and both events stored, each under the id
\* its POST carried.
TwoAttemptsTwoEventIds ==
    /\ notify_pc = "done"
    /\ Len(http_posts) = 2 /\ Len(webhook_events) = 2
    /\ http_posts[1].event_id # http_posts[2].event_id
    /\ webhook_events[1].id = http_posts[1].event_id
    /\ webhook_events[2].id = http_posts[2].event_id
    /\ webhook_events[1].payload # webhook_events[2].payload


=============================================================================
